---- MODULE Spec2Model ----
(***************************************************************************)
(* atomicni: the file-backed IPv4 allocator (pkg/ipam) as a state machine. *)
(*                                                                         *)
(* Representation of Go values                                             *)
(*   net.IP (4 bytes)        <<a, b, c, d>>, bytes in 0..255; nil is <<>>  *)
(*   dotted-decimal text     <<a, ".", b, ".", c, ".", d>>; "" is <<>>     *)
(*   uint32                  <<hi, lo>>, two 16-bit halves, arithmetic     *)
(*                           modulo 2^32                                   *)
(*   container ID            <<"c", i>>; the empty string is <<>>          *)
(*   map[string]string       a function whose DOMAIN is the key set        *)
(***************************************************************************)
EXTENDS Integers, Sequences, FiniteSets, TLC

\* ---------------------------------------------------------------- bounds
MaxContainers == 3

\* concurrent invocations (one short-lived process each)
NumProcs == 3

\* ADD invocations the runtime makes one after another
MaxAdds == 2

\* -------------------------------------------------------------- uint32
Half == 65536

U32(hi, lo) == <<hi, lo>>

U32Add(a, b) ==
  LET lo == a[2] + b[2]
      hi == a[1] + b[1] + (lo \div Half)
  IN  <<hi % Half, lo % Half>>

U32Sub(a, b) ==
  LET borrow == IF a[2] < b[2] THEN 1 ELSE 0
      lo == a[2] + (borrow * Half) - b[2]
      hi == a[1] + Half - b[1] - borrow
  IN  <<hi % Half, lo>>

\* the comparison of the high halves only
U32LtHighHalves(a, b) == a[1] < b[1]

U32Lt(a, b) == a[1] < b[1] \/ (a[1] = b[1] /\ a[2] < b[2])

U32Le(a, b) == a = b \/ U32Lt(a, b)

U32One == <<0, 1>>

U32Zero == <<0, 0>>

\* ------------------------------------------------------------ net.IP
NilIP == <<>>

EmptyString == <<>>

\* net.IP.String of a 4-byte address: dotted decimal
IPString(ip) == <<ip[1], ".", ip[2], ".", ip[3], ".", ip[4]>>

\* net.ParseIP(s).To4(): nil unless s is well-formed dotted decimal
ParseIPTo4(s) ==
  IF /\ Len(s) = 7
     /\ \A i \in {2, 4, 6} : s[i] = "."
     /\ \A i \in {1, 3, 5, 7} : s[i] \in 0..255
  THEN <<s[1], s[3], s[5], s[7]>>
  ELSE NilIP

\* uint32(ip[0])<<24 | uint32(ip[1])<<16 | uint32(ip[2])<<8 | uint32(ip[3])
ipv4ToUint(ip) == U32((ip[1] * 256) + ip[2], (ip[3] * 256) + ip[4])

\* net.IPv4(byte(v>>24), byte(v>>16), byte(v>>8), byte(v)).To4()
uintToIPv4(v) == <<v[1] \div 256, v[1] % 256, v[2] \div 256, v[2] % 256>>

\* bit k of a byte
Bit(a, k) == (a \div k) % 2

\* a & b on one byte
ByteAnd(a, b) ==
  (Bit(a, 1) * Bit(b, 1)) + (2 * Bit(a, 2) * Bit(b, 2)) + (4 * Bit(a, 4) * Bit(b, 4))
  + (8 * Bit(a, 8) * Bit(b, 8)) + (16 * Bit(a, 16) * Bit(b, 16))
  + (32 * Bit(a, 32) * Bit(b, 32)) + (64 * Bit(a, 64) * Bit(b, 64))
  + (128 * Bit(a, 128) * Bit(b, 128))

ByteNot(a) == 255 - a

\* a | b  =  a + b - (a & b)
ByteOr(a, b) == a + b - ByteAnd(a, b)

\* net.CIDRMask(ones, 32)
RECURSIVE MaskByte(_)
MaskByte(ones) ==
  IF ones <= 0 THEN 0
  ELSE IF ones >= 8 THEN 255
  ELSE 128 + (MaskByte(ones - 1) \div 2)

CIDRMask(ones) == [i \in 1..4 |-> MaskByte(ones - (8 * (i - 1)))]

\* *net.IPNet
IPNet(ip, ones) == [IP |-> ip, Mask |-> CIDRMask(ones)]

\* net.IP.Mask
IPMask(ip, mask) == [i \in 1..4 |-> ByteAnd(ip[i], mask[i])]

\* a subnet that contains every IPv4 address
SubnetContainsAll(subnet, ip) == ip # NilIP

\* net.IPNet.Contains
SubnetContains(subnet, ip) ==
  /\ ip # NilIP
  /\ \A i \in 1..4 : ByteAnd(subnet.IP[i], subnet.Mask[i]) = ByteAnd(ip[i], subnet.Mask[i])

networkAndBroadcast(subnet) ==
  LET network == IPMask(subnet.IP, subnet.Mask)
  IN  [network   |-> network,
       broadcast |-> [i \in 1..4 |-> ByteOr(network[i], ByteNot(subnet.Mask[i]))]]

\* ------------------------------------------------------------ errors
NoError == "nil"

ErrNoAvailable == "no available IP addresses"

ErrCorrupted == "ipam state file is corrupted"

ErrStoredInvalid == "stored IP for container is invalid"

ErrRequired == "network and containerID are required"

ErrWriteTemp == "write temp state"

ErrReplace == "replace state"

ErrLock == "lock state"

\* ----------------------------------------------------- map[string]string
EmptyMap == [k \in {} |-> EmptyString]

MapPut(m, k, v) == [x \in (DOMAIN m) \cup {k} |-> IF x = k THEN v ELSE m[x]]

MapDelete(m, k) == [x \in (DOMAIN m) \ {k} |-> m[x]]

\* ------------------------------------------------------------- store.go
\* type state struct
state(c2ip, ip2c, last) ==
  [ContainerToIP |-> c2ip, IPToContainer |-> ip2c, LastReserved |-> last]

newState == state(EmptyMap, EmptyMap, EmptyString)

\* a file of the data directory
Absent == [exists |-> FALSE]

FileWith(content) == [exists |-> TRUE, content |-> content]

\* json.MarshalIndent(st): lastReserved carries omitempty
MarshalState(st) ==
  IF st.LastReserved = EmptyString
  THEN [kind |-> "json",
        doc  |-> [containerToIP |-> st.ContainerToIP,
                  ipToContainer |-> st.IPToContainer]]
  ELSE [kind |-> "json",
        doc  |-> [containerToIP |-> st.ContainerToIP,
                  ipToContainer |-> st.IPToContainer,
                  lastReserved  |-> st.LastReserved]]

\* json.Unmarshal(content, newState())
UnmarshalState(doc) ==
  state(IF "containerToIP" \in DOMAIN doc THEN doc.containerToIP ELSE EmptyMap,
        IF "ipToContainer" \in DOMAIN doc THEN doc.ipToContainer ELSE EmptyMap,
        IF "lastReserved" \in DOMAIN doc THEN doc.lastReserved ELSE EmptyString)

\* a loadState that starts afresh from a file it cannot parse
loadStateRepairing(f) ==
  IF ~f.exists THEN [st |-> newState, err |-> NoError]
  ELSE IF f.content.kind # "json" THEN [st |-> newState, err |-> NoError]
  ELSE [st |-> UnmarshalState(f.content.doc), err |-> NoError]

\* loadState: a missing file and a file of no bytes give newState(), a file
\* json.Unmarshal rejects gives the "corrupted" error
loadState(f) ==
  IF ~f.exists THEN [st |-> newState, err |-> NoError]
  ELSE IF f.content.kind = "empty" THEN [st |-> newState, err |-> NoError]
  ELSE IF f.content.kind # "json" THEN [st |-> newState, err |-> ErrCorrupted]
  ELSE [st |-> UnmarshalState(f.content.doc), err |-> NoError]

\* saveState: the temp file is written, then renamed over the state file
saveState(st) == [stateFile |-> FileWith(MarshalState(st)), tmpFile |-> Absent]

\* --------------------------------------------------------- allocator.go
\* type AllocationRequest struct
AllocationRequest(dataDir, network, containerID, conf) ==
  [DataDir |-> dataDir, Network |-> network, ContainerID |-> containerID,
   Subnet |-> conf.Subnet, Gateway |-> conf.Gateway,
   RangeStart |-> conf.RangeStart, RangeEnd |-> conf.RangeEnd]

validateRequest(req) ==
  IF req.DataDir = "" THEN "dataDir is required"
  ELSE IF req.Network = "" THEN "network is required"
  ELSE IF req.ContainerID = EmptyString THEN "containerID is required"
  ELSE IF req.Subnet.IP = NilIP THEN "only IPv4 subnets are supported"
  ELSE IF req.Gateway = NilIP THEN "gateway must be IPv4"
  ELSE IF req.RangeStart = NilIP \/ req.RangeEnd = NilIP THEN "range bounds must be IPv4"
  ELSE IF ~SubnetContains(req.Subnet, req.RangeStart) \/ ~SubnetContains(req.Subnet, req.RangeEnd)
       THEN "allocation range must be inside subnet"
  ELSE IF U32Lt(ipv4ToUint(req.RangeEnd), ipv4ToUint(req.RangeStart))
       THEN "rangeStart must be <= rangeEnd"
  ELSE NoError

\* findCursor that always starts at rangeStart (first-fit)
findCursorFromStart(st, start, end) == start

\* the cursor findNextIP starts from
findCursor(st, start, end) ==
  LET InRange(last) == last # NilIP /\ U32Le(start, ipv4ToUint(last))
                                    /\ U32Le(ipv4ToUint(last), end)
      Wrap(cursor) == IF U32Lt(end, cursor) THEN start ELSE cursor
      From(last) == Wrap(IF InRange(last) THEN U32Add(ipv4ToUint(last), U32One) ELSE start)
  IN  From(IF st.LastReserved # EmptyString THEN ParseIPTo4(st.LastReserved) ELSE NilIP)

\* the candidate of iteration i
findCandidate(cursor, i, start, end) ==
  LET Wrap(candidate) ==
        IF U32Lt(end, candidate)
        THEN U32Add(start, U32Sub(U32Sub(candidate, end), U32One))
        ELSE candidate
  IN  Wrap(U32Add(cursor, i))

\* findSkips without the in-use test
findSkipsIgnoringUse(st, networkIP, broadcastIP, gateway, ip) ==
  \/ ip = networkIP
  \/ ip = broadcastIP
  \/ ip = gateway

\* findSkips without the gateway test
findSkipsIgnoringGateway(st, networkIP, broadcastIP, gateway, ip) ==
  \/ ip = networkIP
  \/ ip = broadcastIP
  \/ IPString(ip) \in DOMAIN st.IPToContainer

\* whether the loop body skips the address
findSkips(st, networkIP, broadcastIP, gateway, ip) ==
  \/ ip = networkIP
  \/ ip = broadcastIP
  \/ ip = gateway
  \/ IPString(ip) \in DOMAIN st.IPToContainer

\* the for loop, from iteration i on; b holds the values computed before it
RECURSIVE findLoop(_, _, _)
findLoop(st, b, i) ==
  LET Try(ip) ==
        IF findSkips(st, b.networkIP, b.broadcastIP, b.gateway, ip)
        THEN findLoop(st, b, U32Add(i, U32One))
        ELSE [ip |-> ip, err |-> NoError]
  IN  IF ~U32Lt(i, b.count) THEN [ip |-> NilIP, err |-> ErrNoAvailable]
      ELSE Try(uintToIPv4(findCandidate(b.cursor, i, b.start, b.end)))

findNextIP(st, req) ==
  LET Search(start, end, nb) ==
        findLoop(st,
                 [start |-> start, end |-> end,
                  count |-> U32Add(U32Sub(end, start), U32One),
                  cursor |-> findCursor(st, start, end),
                  networkIP |-> nb.network, broadcastIP |-> nb.broadcast,
                  gateway |-> req.Gateway],
                 U32Zero)
  IN  Search(ipv4ToUint(req.RangeStart), ipv4ToUint(req.RangeEnd),
             networkAndBroadcast(req.Subnet))

\* AllocateBody whose existing-entry branch also moves lastReserved
AllocateBodyMovingCursor(st, req) ==
  LET Existing(ip) ==
        [save |-> TRUE,
         st   |-> [st EXCEPT !.IPToContainer = MapPut(@, IPString(ip), req.ContainerID),
                             !.LastReserved = IPString(ip)],
         ip   |-> ip, err |-> NoError]
      Selected(sel) ==
        IF sel.err # NoError
        THEN [save |-> FALSE, st |-> st, ip |-> NilIP, err |-> sel.err]
        ELSE [save |-> TRUE,
              st   |-> state(MapPut(st.ContainerToIP, req.ContainerID, IPString(sel.ip)),
                             MapPut(st.IPToContainer, IPString(sel.ip), req.ContainerID),
                             IPString(sel.ip)),
              ip   |-> sel.ip, err |-> NoError]
  IN  IF req.ContainerID \in DOMAIN st.ContainerToIP
      THEN Existing(ParseIPTo4(st.ContainerToIP[req.ContainerID]))
      ELSE Selected(findNextIP(st, req))

\* AllocateBody that leaves lastReserved as it was
AllocateBodyKeepingCursor(st, req) ==
  LET Existing(ip) ==
        IF ip = NilIP
        THEN [save |-> FALSE, st |-> st, ip |-> NilIP, err |-> ErrStoredInvalid]
        ELSE [save |-> TRUE,
              st   |-> [st EXCEPT !.IPToContainer = MapPut(@, IPString(ip), req.ContainerID)],
              ip   |-> ip, err |-> NoError]
      Selected(sel) ==
        IF sel.err # NoError
        THEN [save |-> FALSE, st |-> st, ip |-> NilIP, err |-> sel.err]
        ELSE [save |-> TRUE,
              st   |-> state(MapPut(st.ContainerToIP, req.ContainerID, IPString(sel.ip)),
                             MapPut(st.IPToContainer, IPString(sel.ip), req.ContainerID),
                             st.LastReserved),
              ip   |-> sel.ip, err |-> NoError]
  IN  IF req.ContainerID \in DOMAIN st.ContainerToIP
      THEN Existing(ParseIPTo4(st.ContainerToIP[req.ContainerID]))
      ELSE Selected(findNextIP(st, req))

\* AllocateBody that selects a new address whether or not the container has one
AllocateBodyIgnoringEntry(st, req) ==
  LET Selected(sel) ==
        IF sel.err # NoError
        THEN [save |-> FALSE, st |-> st, ip |-> NilIP, err |-> sel.err]
        ELSE [save |-> TRUE,
              st   |-> state(MapPut(st.ContainerToIP, req.ContainerID, IPString(sel.ip)),
                             MapPut(st.IPToContainer, IPString(sel.ip), req.ContainerID),
                             IPString(sel.ip)),
              ip   |-> sel.ip, err |-> NoError]
  IN  Selected(findNextIP(st, req))

\* Allocate between loadState and the deferred unlock: the state to save
\* (save = FALSE when the call returns before saveState) and the results
AllocateBody(st, req) ==
  LET Existing(ip) ==
        IF ip = NilIP
        THEN [save |-> FALSE, st |-> st, ip |-> NilIP, err |-> ErrStoredInvalid]
        ELSE [save |-> TRUE,
              st   |-> [st EXCEPT !.IPToContainer = MapPut(@, IPString(ip), req.ContainerID)],
              ip   |-> ip, err |-> NoError]
      Selected(sel) ==
        IF sel.err # NoError
        THEN [save |-> FALSE, st |-> st, ip |-> NilIP, err |-> sel.err]
        ELSE [save |-> TRUE,
              st   |-> state(MapPut(st.ContainerToIP, req.ContainerID, IPString(sel.ip)),
                             MapPut(st.IPToContainer, IPString(sel.ip), req.ContainerID),
                             IPString(sel.ip)),
              ip   |-> sel.ip, err |-> NoError]
  IN  IF req.ContainerID \in DOMAIN st.ContainerToIP
      THEN Existing(ParseIPTo4(st.ContainerToIP[req.ContainerID]))
      ELSE Selected(findNextIP(st, req))

\* ReleaseBody that also clears lastReserved when it is the released address
ReleaseBodyClearingCursor(st, containerID) ==
  IF containerID \notin DOMAIN st.ContainerToIP
  THEN [save |-> FALSE, st |-> st, err |-> NoError]
  ELSE [save |-> TRUE,
        st   |-> state(MapDelete(st.ContainerToIP, containerID),
                       MapDelete(st.IPToContainer, st.ContainerToIP[containerID]),
                       IF st.LastReserved = st.ContainerToIP[containerID]
                       THEN EmptyString ELSE st.LastReserved),
        err  |-> NoError]

\* ReleaseBody that forgets the containerToIP entry
ReleaseBodyKeepingEntry(st, containerID) ==
  IF containerID \notin DOMAIN st.ContainerToIP
  THEN [save |-> FALSE, st |-> st, err |-> NoError]
  ELSE [save |-> TRUE,
        st   |-> [st EXCEPT !.IPToContainer = MapDelete(@, st.ContainerToIP[containerID])],
        err  |-> NoError]

\* ReleaseBody that forgets the ipToContainer entry
ReleaseBodyKeepingReverse(st, containerID) ==
  IF containerID \notin DOMAIN st.ContainerToIP
  THEN [save |-> FALSE, st |-> st, err |-> NoError]
  ELSE [save |-> TRUE,
        st   |-> [st EXCEPT !.ContainerToIP = MapDelete(@, containerID)],
        err  |-> NoError]

ReleaseBody(st, containerID) ==
  IF containerID \notin DOMAIN st.ContainerToIP
  THEN [save |-> FALSE, st |-> st, err |-> NoError]
  ELSE [save |-> TRUE,
        st   |-> [st EXCEPT !.ContainerToIP = MapDelete(@, containerID),
                            !.IPToContainer = MapDelete(@, st.ContainerToIP[containerID])],
        err  |-> NoError]

GetByContainerBody(st, containerID) ==
  LET Found(ip) ==
        IF ip = NilIP
        THEN [ip |-> NilIP, ok |-> FALSE, err |-> ErrStoredInvalid]
        ELSE [ip |-> ip, ok |-> TRUE, err |-> NoError]
  IN  IF containerID \notin DOMAIN st.ContainerToIP
      THEN [ip |-> NilIP, ok |-> FALSE, err |-> NoError]
      ELSE Found(ParseIPTo4(st.ContainerToIP[containerID]))

\* one call, from lockNetwork to the deferred unlockNetwork, with every file
\* operation succeeding: the files it leaves and what it returns
AllocateCall(file, req) ==
  LET Done(r) ==
        [stateFile |-> IF r.save THEN saveState(r.st).stateFile ELSE file,
         ip |-> r.ip, err |-> r.err]
      WithState(ld) ==
        IF ld.err # NoError THEN [stateFile |-> file, ip |-> NilIP, err |-> ld.err]
        ELSE Done(AllocateBody(ld.st, req))
      Validated(verr) ==
        IF verr # NoError THEN [stateFile |-> file, ip |-> NilIP, err |-> verr]
        ELSE WithState(loadState(file))
  IN  Validated(validateRequest(req))

ReleaseCall(file, network, containerID) ==
  LET Done(r) ==
        [stateFile |-> IF r.save THEN saveState(r.st).stateFile ELSE file, err |-> r.err]
      WithState(ld) ==
        IF ld.err # NoError THEN [stateFile |-> file, err |-> ld.err]
        ELSE Done(ReleaseBody(ld.st, containerID))
  IN  IF network = "" \/ containerID = EmptyString THEN [stateFile |-> file, err |-> ErrRequired]
      ELSE WithState(loadState(file))

GetByContainerCall(file, network, containerID) ==
  LET WithState(ld) ==
        IF ld.err # NoError THEN [ip |-> NilIP, ok |-> FALSE, err |-> ld.err]
        ELSE GetByContainerBody(ld.st, containerID)
  IN  IF network = "" \/ containerID = EmptyString
      THEN [ip |-> NilIP, ok |-> FALSE, err |-> ErrRequired]
      ELSE WithState(loadState(file))

\* ------------------------------------------------------------- inputs
DataDir == "/var/lib/atomicni"

Network == "atomic-net"

ContainerIDs == {<<"c", i>> : i \in 1..MaxContainers}

\* the container IDs a caller may pass, the empty string included
CallerIDs == ContainerIDs \cup {EmptyString}

NetConf(subnet, gateway, rangeStart, rangeEnd) ==
  [Subnet |-> subnet, Gateway |-> gateway, RangeStart |-> rangeStart, RangeEnd |-> rangeEnd]

\* 10.22.0.0/29 with the range config.Parse defaults to: first to last host
ConfDefault ==
  NetConf(IPNet(<<10, 22, 0, 0>>, 29), <<10, 22, 0, 1>>, <<10, 22, 0, 1>>, <<10, 22, 0, 6>>)

\* 10.22.0.0/30 with the whole subnet as range: one allocatable address
ConfWhole ==
  NetConf(IPNet(<<10, 22, 0, 0>>, 30), <<10, 22, 0, 1>>, <<10, 22, 0, 0>>, <<10, 22, 0, 3>>)

\* a subnet at the top of the address space, the gateway its last host
ConfHigh ==
  NetConf(IPNet(<<255, 255, 255, 248>>, 29), <<255, 255, 255, 254>>,
          <<255, 255, 255, 252>>, <<255, 255, 255, 254>>)

\* rangeStart above rangeEnd: rejected by validateRequest
ConfBad ==
  NetConf(IPNet(<<10, 22, 0, 0>>, 29), <<10, 22, 0, 1>>, <<10, 22, 0, 6>>, <<10, 22, 0, 2>>)

Confs == {ConfDefault, ConfWhole, ConfHigh, ConfBad}

\* ------------------------------------------------------ config.Parse
\* An error message is the sequence of its fragments, outermost first:
\* errors.New(m) is one or two fragments of m, fmt.Errorf("tag: %w", err)
\* puts the tag before the fragments of err; nil is the empty sequence.
NilError == <<>>

Wrap(tag, err) == <<tag>> \o err

\* strings.Contains(err.Error(), fragment)
ErrorContains(err, fragment) == \E i \in 1..Len(err) : err[i] = fragment

DefaultMTU == 1500

\* no directory put in place of a dataDir the document leaves out
DataDirLeftEmpty == ""

DefaultDataDir == "/var/lib/atomicni"

\* text of an IPv6 address, and of an IPv6 CIDR
IPv6Text == <<"fd00::1">>

IPv6CIDRText == <<"fd00::", "/", 64>>

\* parseIPv4: net.ParseIP, then To4
parseIPv4(value) ==
  IF ParseIPTo4(value) # NilIP THEN [ip |-> ParseIPTo4(value), err |-> NilError]
  ELSE IF value = IPv6Text THEN [ip |-> NilIP, err |-> <<"only IPv4 is supported">>]
  ELSE [ip |-> NilIP, err |-> <<"invalid IP address">>]

\* net.ParseCIDR: the network (address masked by the prefix) or an error;
\* v4 tells whether subnetNet.IP.To4() is non-nil
ParseCIDR(s) ==
  IF /\ Len(s) = 9
     /\ s[8] = "/"
     /\ ParseIPTo4(SubSeq(s, 1, 7)) # NilIP
     /\ s[9] \in 0..32
  THEN [net |-> IPNet(IPMask(ParseIPTo4(SubSeq(s, 1, 7)), CIDRMask(s[9])), s[9]),
        v4 |-> TRUE, err |-> NilError]
  ELSE IF s = IPv6CIDRText
  THEN [net |-> [IP |-> NilIP, Mask |-> <<>>], v4 |-> FALSE, err |-> NilError]
  ELSE [net |-> [IP |-> NilIP, Mask |-> <<>>], v4 |-> FALSE,
        err |-> <<"invalid CIDR address">>]

\* net.IPMask.Size: the number of leading ones
MaskOnes(mask) == CHOOSE ones \in 0..32 : CIDRMask(ones) = mask

\* the default range starting at the second host
defaultRangeFromSecondHost(subnet) ==
  [start |-> uintToIPv4(U32Add(ipv4ToUint(networkAndBroadcast(subnet).network), U32(0, 2))),
   end |-> uintToIPv4(U32Sub(ipv4ToUint(networkAndBroadcast(subnet).broadcast), U32One)),
   err |-> NilError]

defaultRange(subnet) ==
  LET Hosts(nb) ==
        LET Range(start, end) ==
              IF U32Lt(ipv4ToUint(end), ipv4ToUint(start))
              THEN [start |-> NilIP, end |-> NilIP,
                    err |-> <<"subnet does not provide usable host addresses">>]
              ELSE [start |-> start, end |-> end, err |-> NilError]
        IN  Range(uintToIPv4(U32Add(ipv4ToUint(nb.network), U32One)),
                  uintToIPv4(U32Sub(ipv4ToUint(nb.broadcast), U32One)))
  IN  IF 32 - MaskOnes(subnet.Mask) < 2
      THEN [start |-> NilIP, end |-> NilIP,
            err |-> <<"subnet does not provide usable host addresses">>]
      ELSE Hosts(networkAndBroadcast(subnet))

\* the keys of the stdin document and the zero value json.Unmarshal leaves
\* in the field of a key the document omits
ConfigKeys ==
  {"bridge", "name", "subnet", "gateway", "mtu", "dataDir", "rangeStart", "rangeEnd"}

ZeroValue(key) ==
  IF key \in {"bridge", "name", "dataDir"} THEN ""
  ELSE IF key = "mtu" THEN 0
  ELSE EmptyString

\* json.Unmarshal(stdin, cfg)
UnmarshalConfig(doc) ==
  [key \in ConfigKeys |-> IF key \in DOMAIN doc THEN doc[key] ELSE ZeroValue(key)]

NoConfig == [valid |-> FALSE]

Rejected(err) == [cfg |-> NoConfig, err |-> err]

\* the rule that looks at rangeStart only
rangePartialStartOnly(rangeStart, rangeEnd) ==
  rangeStart # EmptyString /\ rangeEnd = EmptyString

\* (cfg.IPAM.RangeStart == "") != (cfg.IPAM.RangeEnd == "")
rangePartial(rangeStart, rangeEnd) ==
  (rangeStart = EmptyString) # (rangeEnd = EmptyString)

\* Parse, from the range endpoints on
ParseRange(raw, mtu, dataDir, gw, subnet, nb) ==
  LET Checked(rs, re) ==
        IF ~SubnetContains(subnet, rs) \/ ~SubnetContains(subnet, re)
        THEN Rejected(<<"ipam range must be inside subnet">>)
        ELSE IF U32Lt(ipv4ToUint(re), ipv4ToUint(rs))
        THEN Rejected(<<"ipam", "rangeStart must be <= rangeEnd">>)
        ELSE IF rs = nb.network \/ rs = nb.broadcast
        THEN Rejected(<<"ipam rangeStart cannot be network or broadcast">>)
        ELSE IF re = nb.network \/ re = nb.broadcast
        THEN Rejected(<<"ipam rangeEnd cannot be network or broadcast">>)
        ELSE [cfg |-> [valid |-> TRUE, Bridge |-> raw["bridge"], Name |-> raw["name"],
                       MTU |-> mtu, DataDir |-> dataDir,
                       SubnetNet |-> subnet, GatewayIP |-> gw,
                       RangeStartIP |-> rs, RangeEndIP |-> re],
              err |-> NilError]
      Defaulted(dr) ==
        IF dr.err # NilError THEN Rejected(dr.err) ELSE Checked(dr.start, dr.end)
      Ends(rs, re) ==
        IF rs.err # NilError THEN Rejected(Wrap("ipam.rangeStart", rs.err))
        ELSE IF re.err # NilError THEN Rejected(Wrap("ipam.rangeEnd", re.err))
        ELSE IF rangePartial(raw["rangeStart"], raw["rangeEnd"])
        THEN Rejected(<<"ipam.rangeStart and ipam.rangeEnd", "must be set together">>)
        ELSE IF rs.ip = NilIP /\ re.ip = NilIP
        THEN Defaulted(defaultRange(subnet))
        ELSE Checked(rs.ip, re.ip)
      Given(text) ==
        IF text # EmptyString THEN parseIPv4(text) ELSE [ip |-> NilIP, err |-> NilError]
  IN  Ends(Given(raw["rangeStart"]), Given(raw["rangeEnd"]))

\* Parse: defaults, then the rules in order; the first that fails is returned
ParseDecoded(raw) ==
  LET Subnetted(mtu, dataDir, gw, cidr) ==
        IF cidr.err # NilError THEN Rejected(Wrap("subnet: invalid CIDR", cidr.err))
        ELSE IF ~cidr.v4 THEN Rejected(<<"subnet: only IPv4 is supported">>)
        ELSE IF ~SubnetContains(cidr.net, gw)
        THEN Rejected(<<"gateway must be inside subnet">>)
        ELSE IF gw \in {networkAndBroadcast(cidr.net).network,
                        networkAndBroadcast(cidr.net).broadcast}
        THEN Rejected(<<"gateway cannot be network or broadcast address">>)
        ELSE ParseRange(raw, mtu, dataDir, gw, cidr.net, networkAndBroadcast(cidr.net))
      Gatewayed(mtu, dataDir, gw) ==
        IF gw.err # NilError THEN Rejected(Wrap("gateway", gw.err))
        ELSE Subnetted(mtu, dataDir, gw.ip, ParseCIDR(raw["subnet"]))
  IN  IF raw["bridge"] = "" THEN Rejected(<<"bridge is required">>)
      ELSE IF raw["name"] = "" THEN Rejected(<<"name is required">>)
      ELSE IF raw["subnet"] = EmptyString THEN Rejected(<<"subnet is required">>)
      ELSE IF raw["gateway"] = EmptyString THEN Rejected(<<"gateway is required">>)
      ELSE Gatewayed(IF raw["mtu"] = 0 THEN DefaultMTU ELSE raw["mtu"],
                     IF raw["dataDir"] = "" THEN DefaultDataDir ELSE raw["dataDir"],
                     parseIPv4(raw["gateway"]))

\* stdin that is not JSON
NotJSON == [kind |-> "garbage"]

JSONDoc(doc) == [kind |-> "json", doc |-> doc]

Parse(input) ==
  IF input.kind # "json" THEN Rejected(Wrap("parse config json", <<"invalid character">>))
  ELSE ParseDecoded(UnmarshalConfig(input.doc))

\* ------------------------------------------------------ paths (store.go)
\* the network names callers use in one data directory
Networks == {"atomic-net", "blue", "blue.json"}

\* a network name cut before each of its dots (none holds a path separator)
NamePieces(network) ==
  CASE network = "atomic-net" -> <<"atomic-net">>
    [] network = "blue" -> <<"blue">>
    [] network = "blue.json" -> <<"blue", ".json">>

\* one file name for all the networks of the directory
JoinShared(dataDir, network, suffix) ==
  [dir |-> dataDir, file |-> <<"network">> \o suffix]

\* filepath.Join(dataDir, network+suffix): the directory and the file name
Join(dataDir, network, suffix) ==
  [dir |-> dataDir, file |-> NamePieces(network) \o suffix]

\* lockPath := filepath.Join(dataDir, network+".lock")
lockPath(dataDir, network) == Join(dataDir, network, <<".lock">>)

\* filepath.Join(dataDir, network+".json")
statePath(dataDir, network) == Join(dataDir, network, <<".json">>)

\* tmpPath := path + ".tmp"
tmpPath(dataDir, network) == Join(dataDir, network, <<".json", ".tmp">>)

\* os.OpenFile(lockPath, os.O_CREATE|os.O_RDWR, 0o644) on a path: the file
\* is there afterwards, with what it held
OpenCreate(file) == IF file.exists THEN file ELSE FileWith([kind |-> "empty"])

\* the files a call on the network works with
FilesOf(network) ==
  {lockPath(DataDir, network), statePath(DataDir, network), tmpPath(DataDir, network)}

NetPaths == UNION {FilesOf(n) : n \in Networks}

\* an empty data directory, no lock held, no call made
NoNets == [files |-> [path \in NetPaths |-> Absent], held |-> {}, inv |-> <<>>, last |-> ""]

\* ---------------------------------------------------------- variables
VARIABLES
  stateFile,   \* {dataDir}/{network}.json
  tmpFile,     \* {dataDir}/{network}.json.tmp
  conf,        \* the network configuration callers build their requests from
  lastCall,    \* the most recent call that returned, with its results; hadEntry,
               \* released (the address a release freed) and reused (a new
               \* allocation returned an address of freed) are history
  granted,     \* history: per container, the address its allocation returned
  freed,       \* history: addresses released since the last new allocation
  call,        \* per concurrent invocation: the operation and its container ID
  pc,          \* per concurrent invocation: where it is in its call
  locked,      \* the invocations holding the flock on {network}.lock
  mem,         \* per concurrent invocation: what it computed from the loaded state
  ret,         \* per concurrent invocation: what its call returned
  serial,      \* history: the state file of the calls run one after another in
               \* the order they took the lock
  expect,      \* history: per invocation, what its call returns in that order
  stdin,       \* the bytes on standard input (args.StdinData)
  parsed,      \* what config.Parse returned for them
  add,         \* the ADD invocation in progress: where it is, its container,
               \* its rollback stack, the calls it made and what it returned
  veth,        \* per container: where its veth pair is
  bridge,      \* whether the bridge exists
  names,       \* the interface names computed so far, call after call
  nets         \* the files of a data directory that several networks share,
               \* and the most recent allocator call made there

procVars == <<call, pc, locked, mem, ret, serial, expect>>

pluginVars == <<stdin, parsed, add, veth, bridge, names, nets>>

vars == <<stateFile, tmpFile, conf, lastCall, granted, freed, procVars, pluginVars>>

NoCall == [op |-> "none", containerID |-> EmptyString, hadEntry |-> FALSE,
           ip |-> NilIP, ok |-> FALSE, err |-> NoError,
           released |-> NilIP, reused |-> FALSE]

\* the state a call loads
Loaded == loadState(stateFile).st

\* nothing on standard input, nothing parsed
NotParsed == [cfg |-> NoConfig, err |-> NilError]

\* no ADD invocation yet
NoAddResult == [present |-> FALSE]

NoRet == [res |-> NoAddResult, err |-> NilError]

NoAdd(n) ==
  [pc |-> "idle", n |-> n, containerID |-> EmptyString, stack |-> <<>>, pending |-> <<>>,
   calls |-> <<>>, undone |-> <<>>, swallowed |-> 0, created |-> FALSE, had |-> FALSE,
   vethBefore |-> "none", hadIP |-> EmptyString, cause |-> NilError, tag |-> "", ip |-> NilIP, ret |-> NoRet]

NoInput ==
  /\ stdin = NotJSON
  /\ parsed = NotParsed
  /\ add = NoAdd(0)
  /\ veth = [c \in ContainerIDs |-> "none"]
  /\ bridge = FALSE
  /\ names = <<>>
  /\ nets = NoNets

Init ==
  /\ stateFile = Absent
  /\ tmpFile = Absent
  /\ conf \in Confs
  /\ lastCall = NoCall
  /\ granted = [c \in ContainerIDs |-> EmptyString]
  /\ freed = {}
  /\ call = <<>> /\ pc = <<>> /\ locked = {} /\ mem = <<>> /\ ret = <<>>
  /\ serial = Absent /\ expect = <<>>
  /\ NoInput

Allocate(c) ==
  \E req \in {AllocationRequest(DataDir, Network, c, conf)} :
  \E r \in {AllocateCall(stateFile, req)} :
  \E had \in {c \in DOMAIN Loaded.ContainerToIP} :
    /\ stateFile' = r.stateFile
    /\ lastCall' = [op |-> "allocate", containerID |-> c, hadEntry |-> had,
                    ip |-> r.ip, ok |-> r.err = NoError, err |-> r.err,
                    released |-> NilIP,
                    reused |-> ~had /\ r.err = NoError /\ IPString(r.ip) \in freed]
    /\ granted' = IF r.err = NoError /\ granted[c] = EmptyString
                  THEN [granted EXCEPT ![c] = IPString(r.ip)]
                  ELSE granted
    /\ freed' = IF ~had /\ r.err \in {NoError, ErrNoAvailable} THEN {} ELSE freed
    /\ UNCHANGED <<tmpFile, conf, procVars, pluginVars>>

Release(c) ==
  \E r \in {ReleaseCall(stateFile, Network, c)} :
  \E st \in {Loaded} :
  \E had \in {c \in DOMAIN st.ContainerToIP} :
    /\ stateFile' = r.stateFile
    /\ lastCall' = [op |-> "release", containerID |-> c, hadEntry |-> had,
                    ip |-> NilIP, ok |-> r.err = NoError, err |-> r.err,
                    released |-> IF r.err = NoError /\ had
                                 THEN ParseIPTo4(st.ContainerToIP[c]) ELSE NilIP,
                    reused |-> FALSE]
    /\ granted' = IF r.err = NoError /\ c # EmptyString
                  THEN [granted EXCEPT ![c] = EmptyString]
                  ELSE granted
    /\ freed' = IF r.err = NoError /\ had
                THEN freed \cup {st.ContainerToIP[c]}
                ELSE freed
    /\ UNCHANGED <<tmpFile, conf, procVars, pluginVars>>

GetByContainer(c) ==
  \E r \in {GetByContainerCall(stateFile, Network, c)} :
    /\ lastCall' = [op |-> "get", containerID |-> c,
                    hadEntry |-> c \in DOMAIN Loaded.ContainerToIP,
                    ip |-> r.ip, ok |-> r.ok, err |-> r.err,
                    released |-> NilIP, reused |-> FALSE]
    /\ UNCHANGED <<stateFile, tmpFile, conf, granted, freed, procVars, pluginVars>>

\* the network's configuration is replaced between invocations; modelled only
\* while no container holds an address, which keeps the addresses in play few
Reconfigure(newConf) ==
  /\ newConf # conf
  /\ DOMAIN Loaded.ContainerToIP = {}
  /\ conf' = newConf
  /\ lastCall' = NoCall
  /\ UNCHANGED <<stateFile, tmpFile, granted, freed, procVars, pluginVars>>

Next ==
  \/ \E c \in CallerIDs : Allocate(c)
  \/ \E c \in CallerIDs : Release(c)
  \/ \E c \in CallerIDs : GetByContainer(c)
  \/ \E newConf \in Confs : Reconfigure(newConf)

Spec == Init /\ [][Next]_vars

\* ---------------------------------------------------------------------
\* Concurrent invocations: every call is split at its file operations
\* (flock, read, write of the temp file, rename, unlock)

Procs == 1..NumProcs

\* invocation p works on its own container or contends for container 1
ProcCalls(p) ==
  [op : {"allocate", "release", "get"}, containerID : {<<"c", p>>, <<"c", 1>>}]

ProcIDs == {<<"c", p>> : p \in Procs}

NoResult == [ip |-> NilIP, ok |-> FALSE, err |-> NoError]

\* the request the plugin builds for a container from the network's configuration
RequestFor(c) == AllocationRequest(DataDir, Network, c, conf)

\* what a call returns and the state file it leaves when run alone on file
SerialCall(file, cl) ==
  LET OfAllocate(r) == [stateFile |-> r.stateFile, ip |-> r.ip, ok |-> r.err = NoError, err |-> r.err]
      OfRelease(r) == [stateFile |-> r.stateFile, ip |-> NilIP, ok |-> r.err = NoError, err |-> r.err]
      OfGet(r) == [stateFile |-> file, ip |-> r.ip, ok |-> r.ok, err |-> r.err]
  IN  CASE cl.op = "allocate" -> OfAllocate(AllocateCall(file, RequestFor(cl.containerID)))
        [] cl.op = "release" -> OfRelease(ReleaseCall(file, Network, cl.containerID))
        [] cl.op = "get" -> OfGet(GetByContainerCall(file, Network, cl.containerID))

\* the checks a call makes before lockNetwork
Precheck(cl) ==
  IF cl.op = "allocate" THEN validateRequest(RequestFor(cl.containerID))
  ELSE IF Network = "" \/ cl.containerID = EmptyString THEN ErrRequired
  ELSE NoError

\* the lock that getByContainer does not wait for
flockExceptReaders(p, holders) == call[p].op = "get" \/ holders = {}

\* the lock taken with LOCK_SH, which any number of open files may hold
flockShared(p, holders) == TRUE

\* the lock file named after the container instead of the network
flockPerContainer(p, holders) ==
  \A q \in holders : call[q].containerID # call[p].containerID

\* syscall.Flock(fd, LOCK_EX) on {dataDir}/{network}.lock returns once no
\* other open file holds the lock
flockExclusive(p, holders) == holders = {}

\* the call's work on the loaded state, per operation
CallBody(st, cl) ==
  LET OfAllocate(r) == [save |-> r.save, st |-> r.st, ip |-> r.ip, ok |-> r.err = NoError, err |-> r.err]
      OfRelease(r) == [save |-> r.save, st |-> r.st, ip |-> NilIP, ok |-> r.err = NoError, err |-> r.err]
      OfGet(r) == [save |-> FALSE, st |-> st, ip |-> r.ip, ok |-> r.ok, err |-> r.err]
  IN  CASE cl.op = "allocate" -> OfAllocate(AllocateBody(st, RequestFor(cl.containerID)))
        [] cl.op = "release" -> OfRelease(ReleaseBody(st, cl.containerID))
        [] cl.op = "get" -> OfGet(GetByContainerBody(st, cl.containerID))

InitConc ==
  /\ stateFile = Absent
  /\ tmpFile = Absent
  /\ conf \in Confs
  /\ lastCall = NoCall
  /\ granted = [c \in ProcIDs |-> EmptyString]
  /\ freed = {}
  /\ call \in [Procs -> UNION {ProcCalls(p) : p \in Procs}]
  /\ \A p \in Procs : call[p] \in ProcCalls(p)
  /\ pc = [p \in Procs |-> "start"]
  /\ locked = {}
  /\ mem = [p \in Procs |-> [save |-> FALSE, st |-> newState, ip |-> NilIP,
                             ok |-> FALSE, err |-> NoError]]
  /\ ret = [p \in Procs |-> NoResult]
  /\ serial = Absent
  /\ expect = [p \in Procs |-> NoResult]
  /\ NoInput

\* the history of a call that takes its place in the serial order
Serialize(p) ==
  \E r \in {SerialCall(serial, call[p])} :
    /\ serial' = r.stateFile
    /\ expect' = [expect EXCEPT ![p] = [ip |-> r.ip, ok |-> r.ok, err |-> r.err]]
    /\ granted' =
         IF call[p].op = "allocate" /\ r.ok /\ granted[call[p].containerID] = EmptyString
         THEN [granted EXCEPT ![call[p].containerID] = IPString(r.ip)]
         ELSE IF call[p].op = "release" /\ r.ok
         THEN [granted EXCEPT ![call[p].containerID] = EmptyString]
         ELSE granted

\* validateRequest, then lockNetwork: the call waits until flock grants the lock
Lock(p) ==
  /\ pc[p] = "start"
  /\ UNCHANGED pluginVars
  /\ \E verr \in {Precheck(call[p])} :
       IF verr # NoError
       THEN /\ pc' = [pc EXCEPT ![p] = "done"]
            /\ ret' = [ret EXCEPT ![p] = [ip |-> NilIP, ok |-> FALSE, err |-> verr]]
            /\ UNCHANGED locked
       ELSE /\ flockExclusive(p, locked)
            /\ locked' = locked \cup {p}
            /\ pc' = [pc EXCEPT ![p] = "load"]
            /\ UNCHANGED ret
  /\ Serialize(p)
  /\ UNCHANGED <<stateFile, tmpFile, conf, lastCall, freed, call, mem>>

\* loadState and the work on the loaded state, up to saveState
Load(p) ==
  /\ pc[p] = "load"
  /\ UNCHANGED pluginVars
  /\ \E ld \in {loadState(stateFile)} :
       IF ld.err # NoError
       THEN /\ mem' = [mem EXCEPT ![p] = [save |-> FALSE, st |-> ld.st, ip |-> NilIP,
                                          ok |-> FALSE, err |-> ld.err]]
            /\ pc' = [pc EXCEPT ![p] = "unlock"]
       ELSE \E r \in {CallBody(ld.st, call[p])} :
              /\ mem' = [mem EXCEPT ![p] = r]
              /\ pc' = [pc EXCEPT ![p] = IF r.save THEN "write" ELSE "unlock"]
  /\ UNCHANGED <<stateFile, tmpFile, conf, lastCall, granted, freed,
                 call, locked, ret, serial, expect>>

\* the content written to the state file itself, with no temp file
writeInPlace(files, content) ==
  [stateFile |-> FileWith(content), tmpFile |-> files.tmpFile]

\* saveState: tmpPath := path + ".tmp"; os.WriteFile(tmpPath, content) leaves
\* the bytes it wrote in the temp file
writeTmpPath(files, content) ==
  [stateFile |-> files.stateFile, tmpFile |-> FileWith(content)]

\* saveState: os.WriteFile(tmpPath, content)
WriteTemp(p) ==
  /\ pc[p] = "write"
  /\ UNCHANGED pluginVars
  /\ \E w \in {writeTmpPath([stateFile |-> stateFile, tmpFile |-> tmpFile],
                             MarshalState(mem[p].st))} :
       stateFile' = w.stateFile /\ tmpFile' = w.tmpFile
  /\ pc' = [pc EXCEPT ![p] = "rename"]
  /\ UNCHANGED <<conf, lastCall, granted, freed,
                 call, locked, mem, ret, serial, expect>>

\* saveState: os.Rename(tmpPath, path)
RenameTemp(p) ==
  /\ pc[p] = "rename"
  /\ UNCHANGED pluginVars
  /\ stateFile' = tmpFile
  /\ tmpFile' = Absent
  /\ pc' = [pc EXCEPT ![p] = "unlock"]
  /\ UNCHANGED <<conf, lastCall, granted, freed, call, locked, mem, ret, serial, expect>>

\* a return that leaves the lock file open and locked
unlockNetworkNever(p, holders) == holders

\* unlockNetwork: flock(LOCK_UN) and Close, after which p holds the lock no more
unlockNetwork(p, holders) == holders \ {p}

\* the deferred unlockNetwork, and the return
Unlock(p) ==
  /\ pc[p] = "unlock"
  /\ UNCHANGED pluginVars
  /\ locked' = unlockNetwork(p, locked)
  /\ ret' = [ret EXCEPT ![p] = [ip |-> mem[p].ip, ok |-> mem[p].ok, err |-> mem[p].err]]
  /\ pc' = [pc EXCEPT ![p] = "done"]
  /\ UNCHANGED <<stateFile, tmpFile, conf, lastCall, granted, freed,
                 call, mem, serial, expect>>

NextConc ==
  \/ \E p \in Procs : Lock(p)
  \/ \E p \in Procs : Load(p)
  \/ \E p \in Procs : WriteTemp(p)
  \/ \E p \in Procs : RenameTemp(p)
  \/ \E p \in Procs : Unlock(p)

SpecConc == InitConc /\ [][NextConc]_vars

\* the calls start together, the first an allocate, with requests that pass
\* the checks made before lockNetwork or with requests that fail them
InitFair == InitConc /\ conf \in {ConfDefault, ConfBad} /\ call[1].op = "allocate"

\* invocation p is not blocked: it has yet to call, and either its request
\* fails the checks or flock would grant it the lock; or it holds the lock and
\* is between lockNetwork and its return
CanStep(p) ==
  \/ pc[p] = "start" /\ (Precheck(call[p]) # NoError \/ flockExclusive(p, locked))
  \/ pc[p] \in {"load", "write", "rename", "unlock"}

\* invocation p runs its next statement, whichever it is: p is elsewhere in
\* its call afterwards
Advance(p) ==
  /\ CanStep(p)
  /\ \E at \in {"load", "write", "rename", "unlock", "done"} \ {pc[p]} :
       pc' = [pc EXCEPT ![p] = at]

\* the concurrent invocations under a scheduler that lets every process run:
\* a process that is not blocked, in flock or elsewhere, is not left waiting
\* forever
SpecFair == InitFair /\ [][NextConc]_vars /\ \A p \in Procs : WF_pc(Advance(p))

\* ---------------------------------------------------------------------
\* Concurrent invocations whose file operations may fail and whose process
\* may die at any point of the call

\* what os.WriteFile leaves when it stops early: no bytes, or a prefix of them
PartialWrites(content) == {[kind |-> "empty"], [kind |-> "partial", of |-> content.doc]}

\* the call returns err and no value
Failed(m, err) == [m EXCEPT !.save = FALSE, !.ip = NilIP, !.ok = FALSE, !.err = err]

\* saveState: os.WriteFile fails; "write temp state" is returned and the temp
\* file is left as the write left it
WriteTempFails(p) ==
  /\ pc[p] = "write"
  /\ UNCHANGED pluginVars
  /\ \/ UNCHANGED <<stateFile, tmpFile>>
     \/ \E part \in PartialWrites(MarshalState(mem[p].st)) :
        \E w \in {writeTmpPath([stateFile |-> stateFile, tmpFile |-> tmpFile], part)} :
          stateFile' = w.stateFile /\ tmpFile' = w.tmpFile
  /\ mem' = [mem EXCEPT ![p] = Failed(mem[p], ErrWriteTemp)]
  /\ pc' = [pc EXCEPT ![p] = "unlock"]
  /\ UNCHANGED <<conf, lastCall, granted, freed, call, locked, ret, serial, expect>>

\* saveState: os.Rename fails; the temp file is removed (the removal's error
\* is dropped) and "replace state" is returned
RenameFails(p) ==
  /\ pc[p] = "rename"
  /\ UNCHANGED pluginVars
  /\ tmpFile' \in {Absent, tmpFile}
  /\ mem' = [mem EXCEPT ![p] = Failed(mem[p], ErrReplace)]
  /\ pc' = [pc EXCEPT ![p] = "unlock"]
  /\ UNCHANGED <<stateFile, conf, lastCall, granted, freed,
                 call, locked, ret, serial, expect>>

\* what a process holds in memory before it loaded the state
NoMem == [save |-> FALSE, st |-> newState, ip |-> NilIP, ok |-> FALSE, err |-> NoError]

\* the process dies, and what it held in memory with it; the kernel closes
\* its files, which drops the flock
Crash(p) ==
  /\ pc[p] \in {"load", "write", "rename", "unlock"}
  /\ UNCHANGED pluginVars
  /\ locked' = locked \ {p}
  /\ pc' = [pc EXCEPT ![p] = IF pc[p] = "rename" THEN "crashed before rename"
                             ELSE "crashed"]
  /\ mem' = [mem EXCEPT ![p] = NoMem]
  /\ UNCHANGED <<stateFile, tmpFile, conf, lastCall, granted, freed,
                 call, ret, serial, expect>>

\* the process dies inside os.WriteFile
CrashInWrite(p) ==
  /\ pc[p] = "write"
  /\ UNCHANGED pluginVars
  /\ \E part \in PartialWrites(MarshalState(mem[p].st)) :
     \E w \in {writeTmpPath([stateFile |-> stateFile, tmpFile |-> tmpFile], part)} :
       stateFile' = w.stateFile /\ tmpFile' = w.tmpFile
  /\ locked' = locked \ {p}
  /\ pc' = [pc EXCEPT ![p] = "crashed"]
  /\ mem' = [mem EXCEPT ![p] = NoMem]
  /\ UNCHANGED <<conf, lastCall, granted, freed, call, ret, serial, expect>>

\* the calls start on a network with no state file; each invocation allocates
\* for its own container or releases container 1
InitFault ==
  /\ InitConc
  /\ conf = ConfDefault
  /\ \A p \in Procs :
       call[p] \in {[op |-> "allocate", containerID |-> <<"c", p>>],
                    [op |-> "release", containerID |-> <<"c", 1>>]}

NextFault ==
  \/ NextConc
  \/ \E p \in Procs : WriteTempFails(p)
  \/ \E p \in Procs : RenameFails(p)
  \/ \E p \in Procs : Crash(p)
  \/ \E p \in Procs : CrashInWrite(p)

SpecFault == InitFault /\ [][NextFault]_vars

\* ---------------------------------------------------------------------
\* Concurrent invocations with every way a call returns: a request that fails
\* its checks, a lock that cannot be taken, a state file that does not parse,
\* a write or a rename that fails, and success

\* a state file that json.Unmarshal rejects
CorruptedFile == FileWith([kind |-> "partial", of |-> MarshalState(newState).doc])

\* each invocation allocates for its own container, releases or reads
\* container 1, or reads with no container ID
\* a state file of length zero
EmptyFile == FileWith([kind |-> "empty"])

InitLock ==
  /\ stateFile \in {Absent, EmptyFile, CorruptedFile}
  /\ tmpFile = Absent
  /\ conf = ConfDefault
  /\ lastCall = NoCall
  /\ granted = [c \in ProcIDs |-> EmptyString]
  /\ freed = {}
  /\ call \in [Procs -> [op : {"allocate", "release", "get"}, containerID : CallerIDs]]
  /\ \A p \in Procs :
       call[p] \in {[op |-> "allocate", containerID |-> <<"c", p>>],
                    [op |-> "release", containerID |-> <<"c", 1>>],
                    [op |-> "get", containerID |-> <<"c", 1>>],
                    [op |-> "get", containerID |-> EmptyString]}
  /\ pc = [p \in Procs |-> "start"]
  /\ locked = {}
  /\ mem = [p \in Procs |-> NoMem]
  /\ ret = [p \in Procs |-> NoResult]
  /\ serial = stateFile
  /\ expect = [p \in Procs |-> NoResult]
  /\ NoInput

\* lockNetwork fails (MkdirAll, OpenFile or Flock): the lock file is closed
\* and the error returned, nothing is held
LockFails(p) ==
  /\ pc[p] = "start"
  /\ Precheck(call[p]) = NoError
  /\ pc' = [pc EXCEPT ![p] = "done"]
  /\ ret' = [ret EXCEPT ![p] = [ip |-> NilIP, ok |-> FALSE, err |-> ErrLock]]
  /\ UNCHANGED <<stateFile, tmpFile, conf, lastCall, granted, freed,
                 call, locked, mem, serial, expect, pluginVars>>

NextLock ==
  \/ NextConc
  \/ \E p \in Procs : LockFails(p)
  \/ \E p \in Procs : WriteTempFails(p)
  \/ \E p \in Procs : RenameFails(p)

SpecLock == InitLock /\ [][NextLock]_vars

\* ---------------------------------------------------------------------
\* config.Parse applied to the documents a runtime may put on standard input

\* a document without the keys whose value is the zero value
DropZero(f) == [key \in {k \in ConfigKeys : f[k] # ZeroValue(k)} |-> f[key]]

SubnetTexts ==
  {EmptyString,
   <<10, ".", 22, ".", 0, ".", 0, "/", 29>>,
   <<10, ".", 22, ".", 0, ".", 5, "/", 30>>,
   <<10, ".", 22, ".", 0, ".", 0, "/", 31>>,
   <<"10.22.0.0">>,
   IPv6CIDRText}

GatewayTexts ==
  {EmptyString,
   <<10, ".", 22, ".", 0, ".", 1>>,
   <<10, ".", 22, ".", 0, ".", 5>>,
   <<10, ".", 22, ".", 0, ".", 0>>,
   <<10, ".", 22, ".", 0, ".", 7>>,
   <<10, ".", 23, ".", 0, ".", 1>>,
   <<"gateway">>,
   IPv6Text}

RangeTexts ==
  {EmptyString,
   <<10, ".", 22, ".", 0, ".", 2>>,
   <<10, ".", 22, ".", 0, ".", 6>>,
   <<10, ".", 22, ".", 0, ".", 0>>,
   <<10, ".", 22, ".", 0, ".", 7>>,
   <<10, ".", 23, ".", 0, ".", 9>>,
   <<"first">>}

Stdins ==
  {NotJSON} \cup
  {JSONDoc(DropZero(f)) :
     f \in [bridge : {"", "atomic0"}, name : {"", "atomic-net"},
            subnet : SubnetTexts, gateway : GatewayTexts,
            mtu : {0, 9000, -1}, dataDir : {"", "/run/atomicni"},
            rangeStart : RangeTexts, rangeEnd : RangeTexts]}

InitParse ==
  /\ stateFile = Absent
  /\ tmpFile = Absent
  /\ conf = ConfDefault
  /\ lastCall = NoCall
  /\ granted = [c \in ContainerIDs |-> EmptyString]
  /\ freed = {}
  /\ call = <<>> /\ pc = <<>> /\ locked = {} /\ mem = <<>> /\ ret = <<>>
  /\ serial = Absent /\ expect = <<>>
  /\ stdin \in Stdins
  /\ parsed = NotParsed
  /\ add = NoAdd(0)
  /\ veth = [c \in ContainerIDs |-> "none"]
  /\ bridge = FALSE
  /\ names = <<>>
  /\ nets = NoNets

\* cfg, err := config.Parse(args.StdinData)
ParseStdin ==
  /\ parsed = NotParsed
  /\ parsed' = Parse(stdin)
  /\ UNCHANGED <<stateFile, tmpFile, conf, lastCall, granted, freed, procVars,
                 stdin, add, veth, bridge, names, nets>>

NextParse == ParseStdin

SpecParse == InitParse /\ [][NextParse]_vars

\* ---------------------------------------------------------------------
\* Plugin.Add: the link operations (netops) on a container's veth pair
\* veth[c] is "none" (no pair), "host" (both ends in the host namespace, the
\* peer under its temporary name), "moved" (the peer in the container's
\* namespace under its temporary name) or "renamed" (the peer named ifName).
\* Deleting one end of a pair deletes the other.

\* const linuxIfNameMaxLen = 15
linuxIfNameMaxLen == 15

\* the container ID of TestDeterministicNames
TestContainerID == <<"1234567890abcdef1234567890abcdef">>

\* hex.EncodeToString(sha1.Sum([]byte(key))): the 40 hexadecimal digits of
\* the SHA-1 digest, tabulated for the keys used here ("", "c1" .. "c5" and
\* the ID of the test)
sha1Hex(key) ==
  CASE key = EmptyString ->
       <<"d", "a", "3", "9", "a", "3", "e", "e", "5", "e", "6", "b", "4", "b", "0", "d", "3", "2", "5", "5",
         "b", "f", "e", "f", "9", "5", "6", "0", "1", "8", "9", "0", "a", "f", "d", "8", "0", "7", "0", "9">>
    [] key = <<"c", 1>> ->
       <<"2", "f", "2", "2", "7", "6", "5", "d", "0", "4", "9", "3", "1", "a", "0", "7", "8", "9", "0", "9",
         "1", "4", "5", "c", "a", "6", "2", "8", "d", "2", "2", "6", "4", "c", "8", "5", "2", "d", "7", "d">>
    [] key = <<"c", 2>> ->
       <<"6", "b", "1", "f", "5", "3", "3", "0", "3", "a", "7", "3", "2", "c", "c", "c", "8", "c", "6", "a",
         "a", "e", "6", "6", "4", "0", "3", "9", "9", "8", "2", "7", "c", "1", "5", "2", "5", "0", "e", "3">>
    [] key = <<"c", 3>> ->
       <<"a", "6", "2", "5", "4", "0", "6", "f", "6", "9", "7", "7", "d", "4", "5", "c", "1", "3", "9", "1",
         "b", "0", "7", "8", "f", "4", "d", "3", "6", "5", "6", "e", "0", "b", "7", "5", "b", "f", "c", "b">>
    [] key = <<"c", 4>> ->
       <<"e", "4", "6", "6", "6", "a", "6", "7", "0", "f", "0", "4", "2", "8", "7", "7", "c", "6", "7", "a",
         "8", "4", "4", "7", "3", "a", "7", "1", "6", "7", "5", "e", "e", "0", "9", "5", "0", "a", "0", "8">>
    [] key = <<"c", 5>> ->
       <<"8", "d", "c", "2", "9", "f", "c", "5", "8", "c", "0", "b", "d", "9", "9", "0", "6", "8", "c", "2",
         "e", "5", "c", "7", "5", "2", "a", "a", "6", "1", "5", "2", "1", "d", "4", "f", "1", "1", "c", "e">>
    [] key = TestContainerID ->
       <<"1", "2", "5", "f", "b", "c", "1", "4", "7", "7", "3", "f", "2", "2", "8", "e", "7", "2", "f", "1",
         "6", "d", "5", "5", "b", "e", "2", "1", "b", "a", "d", "7", "5", "0", "d", "3", "0", "b", "1", "9">>

\* the hash cut to the whole length limit, the prefix not counted
deterministicNameUncounted(prefix, key) ==
  prefix \o SubSeq(sha1Hex(key), 1, linuxIfNameMaxLen)

\* deterministicName: the prefix, then as many digits of the hash as the
\* length limit leaves room for (one at least)
deterministicName(prefix, key) ==
  LET maxHashLen == IF linuxIfNameMaxLen - Len(prefix) < 1 THEN 1
                    ELSE linuxIfNameMaxLen - Len(prefix)
  IN  prefix \o SubSeq(sha1Hex(key), 1, maxHashLen)

HostVethName(containerID) == deterministicName(<<"a", "v">>, containerID)

PeerVethTempName(containerID) == deterministicName(<<"c", "v">>, containerID)

\* args.IfName
IfName == <<"eth0">>

Outcome(v, err) == [veth |-> v, err |-> err]

\* NetlinkOps.CreateVethPair
CreateVethPairOutcomes(v) ==
  IF v # "none" THEN {Outcome(v, NilError)}
  ELSE {Outcome("none", <<"create veth pair">>),
        Outcome("host", <<"set host veth mtu">>),
        Outcome("host", <<"set peer veth mtu">>),
        Outcome("host", NilError)}

\* NetlinkOps.AttachHostVethToBridge
AttachOutcomes(v) ==
  {Outcome(v, <<"attach host veth to bridge">>), Outcome(v, <<"set host veth up">>)}
    \cup (IF v = "none" THEN {} ELSE {Outcome(v, NilError)})

\* NetlinkOps.MoveToNamespace
MoveOutcomes(v) ==
  IF v # "host" THEN {Outcome(v, NilError)}
  ELSE {Outcome("host", <<"move link to netns">>), Outcome("moved", NilError)}

\* NetlinkOps.PrepareContainerLink
PrepareOutcomes(v) ==
  LET Up(w) == {Outcome(w, <<"set container link up">>),
                Outcome(w, <<"read container link mac">>),
                Outcome(w, NilError)}
  IN  IF v = "moved" THEN {Outcome("moved", <<"rename link">>)} \cup Up("renamed")
      ELSE IF v = "renamed" THEN Up("renamed")
      ELSE {Outcome(v, <<"lookup link">>)}

\* NetlinkOps.AddAddressAndRoute
AddAddressOutcomes(v) ==
  {Outcome(v, <<"assign IP address">>), Outcome(v, <<"add default route">>)}
    \cup (IF v = "renamed" THEN {Outcome(v, NilError)} ELSE {})

\* NetlinkOps.GetLinkMAC
GetLinkMACOutcomes(v) ==
  {Outcome(v, <<"read MAC">>)} \cup (IF v = "none" THEN {} ELSE {Outcome(v, NilError)})

\* NetlinkOps.DeleteLink: a link that is not there is no error
DeleteLinkOutcomes(v) ==
  {Outcome(v, <<"delete link">>), Outcome("none", NilError)}

\* NetlinkOps.DeleteLinkInNS: a link that is not there is no error
DeleteLinkInNSOutcomes(v, name, containerID) ==
  LET there == \/ (v = "moved" /\ name = PeerVethTempName(containerID))
               \/ (v = "renamed" /\ name = IfName)
  IN  {Outcome(v, <<"delete link in netns">>),
       Outcome(IF there THEN "none" ELSE v, NilError)}

\* a call made on netops or on the allocator
CallOf(op, arg) == [op |-> op, arg |-> arg]

RECURSIVE CallsOf(_)
\* the calls the closures make, closure after closure
CallsOf(closures) ==
  IF closures = <<>> THEN <<>>
  ELSE closures[1] \o CallsOf(Tail(closures))

\* the closures, first registered first
firstToLast(stack) == stack

\* rollbackStack.Run: the closures, last registered first
lastToFirst(stack) == [i \in 1..Len(stack) |-> stack[Len(stack) + 1 - i]]

\* the calls rollbackStack.Run makes, in the order it makes them
RunOrder(stack) == CallsOf(lastToFirst(stack))

\* the error of the failed step, with no tag
failUntagged(op, opErr) == opErr

\* the fail closure's error: fmt.Errorf("%s: %w", op, opErr)
fail(op, opErr) == Wrap(op, opErr)

\* the stack run when Add returns, as a deferred rollback.Run() would
RunWhenSucceeded(stack) == RunOrder(stack)

\* Add returns its result without running the stack
AbandonedWhenSucceeded(stack) == <<>>

\* result.BuildAddResult, as far as the allocation goes
AddResult(cfg, ip) ==
  [present |-> TRUE, IP |-> ip, Mask |-> cfg.SubnetNet.Mask, Gateway |-> cfg.GatewayIP]

\* ipReq := ipam.AllocationRequest{...}
AddRequest(cfg, containerID) ==
  AllocationRequest(cfg.DataDir, cfg.Name, containerID,
                    NetConf(cfg.SubnetNet, cfg.GatewayIP, cfg.RangeStartIP, cfg.RangeEndIP))

\* the documents the runtime puts on standard input of ADD
MinimalDoc(subnet, gateway) ==
  JSONDoc([key \in {"bridge", "name", "subnet", "gateway"} |->
             CASE key = "bridge" -> "atomic0"
               [] key = "name" -> Network
               [] key = "subnet" -> subnet
               [] key = "gateway" -> gateway])

AddStdins ==
  {MinimalDoc(<<10, ".", 22, ".", 0, ".", 0, "/", 29>>, <<10, ".", 22, ".", 0, ".", 1>>),
   MinimalDoc(<<10, ".", 22, ".", 0, ".", 5, "/", 30>>, <<10, ".", 22, ".", 0, ".", 5>>),
   NotJSON}

\* ---------------------------------------------------------------------
\* Plugin.Add, one action per call it makes

restOfAdd == <<tmpFile, conf, lastCall, granted, freed, procVars, names, nets>>

InitAdd ==
  /\ stateFile = Absent
  /\ tmpFile = Absent
  /\ conf = ConfDefault
  /\ lastCall = NoCall
  /\ granted = [c \in ContainerIDs |-> EmptyString]
  /\ freed = {}
  /\ call = <<>> /\ pc = <<>> /\ locked = {} /\ mem = <<>> /\ ret = <<>>
  /\ serial = Absent /\ expect = <<>>
  /\ NoInput

\* Add with the address allocated before the container link is prepared
stepAfterAllocatingEarly(step) ==
  CASE step = "parse" -> "netns"
    [] step = "netns" -> "bridge"
    [] step = "bridge" -> "veth"
    [] step = "veth" -> "attach"
    [] step = "attach" -> "move"
    [] step = "move" -> "alloc"
    [] step = "alloc" -> "prepare"
    [] step = "prepare" -> "address"
    [] step = "address" -> "mac"
    [] step = "mac" -> "finish"

\* the statement of Add that follows a step that succeeded: config.Parse,
\* ns.GetNS, EnsureBridge, CreateVethPair, AttachHostVethToBridge,
\* MoveToNamespace, PrepareContainerLink, Allocate, AddAddressAndRoute,
\* GetLinkMAC, and the return of the result
stepAfter(step) ==
  CASE step = "parse" -> "netns"
    [] step = "netns" -> "bridge"
    [] step = "bridge" -> "veth"
    [] step = "veth" -> "attach"
    [] step = "attach" -> "move"
    [] step = "move" -> "prepare"
    [] step = "prepare" -> "alloc"
    [] step = "alloc" -> "address"
    [] step = "address" -> "mac"
    [] step = "mac" -> "finish"

\* the step failed: fail(op, opErr) runs the rollback stack, then returns
Failing(a, op, opErr) ==
  [a EXCEPT !.pc = "rollback", !.pending = RunOrder(a.stack), !.tag = op, !.cause = opErr]

\* Add returns before any rollback is registered
Returning(a, res, err) == [a EXCEPT !.pc = "returned", !.ret = [res |-> res, err |-> err]]

Called(a, op, arg) == [a EXCEPT !.calls = Append(@, CallOf(op, arg))]

\* a step on the container's links: the call, then either fail(tag, err) or
\* the next step, with the closure (if any) pushed on the rollback stack
LinkStep(op, arg, outcomes, tag, next, closure) ==
  /\ \E o \in outcomes :
       /\ veth' = [veth EXCEPT ![add.containerID] = o.veth]
       /\ add' =
            IF o.err # NilError THEN Failing(Called(add, op, arg), tag, o.err)
            ELSE [Called(add, op, arg) EXCEPT
                    !.pc = next,
                    !.stack = IF closure = <<>> THEN @ ELSE Append(@, closure)]
  /\ UNCHANGED <<stateFile, stdin, parsed, bridge, restOfAdd>>

\* the runtime invokes ADD for a container
AddBegin(c, input) ==
  /\ add.pc = "idle"
  /\ add.n < MaxAdds
  /\ stdin' = input
  /\ parsed' = NotParsed
  /\ add' = [NoAdd(add.n + 1) EXCEPT !.pc = "parse", !.containerID = c,
                                    !.had = c \in DOMAIN Loaded.ContainerToIP,
                                    !.vethBefore = veth[c],
                                    !.hadIP = IF c \in DOMAIN Loaded.ContainerToIP
                                              THEN Loaded.ContainerToIP[c]
                                              ELSE EmptyString]
  /\ UNCHANGED <<stateFile, veth, bridge, restOfAdd>>

\* cfg, err := config.Parse(args.StdinData)
AddParse ==
  /\ add.pc = "parse"
  /\ \E r \in {Parse(stdin)} :
       /\ parsed' = r
       /\ add' = IF r.err # NilError
                 THEN Returning(add, NoAddResult, Wrap("parse-config", r.err))
                 ELSE [add EXCEPT !.pc = stepAfter("parse")]
  /\ UNCHANGED <<stateFile, stdin, veth, bridge, restOfAdd>>

\* targetNS, err := ns.GetNS(args.Netns)
AddGetNS ==
  /\ add.pc = "netns"
  /\ \E err \in {NilError, <<"failed to open netns">>} :
       add' = IF err # NilError
              THEN Returning(add, NoAddResult, Wrap("open-netns", err))
              ELSE [add EXCEPT !.pc = stepAfter("netns")]
  /\ UNCHANGED <<stateFile, stdin, parsed, veth, bridge, restOfAdd>>

\* a stack that would take the bridge down with the container's links
rollbackStackUndoingBridge == <<<<CallOf("DeleteLink", <<parsed.cfg.Bridge>>)>>>>

\* rollback := rollbackStack{}: empty after EnsureBridge, which registers nothing
rollbackStack == <<>>

\* p.NetOps.EnsureBridge(cfg.Bridge, gatewayCIDR)
AddEnsureBridge ==
  /\ add.pc = "bridge"
  /\ \E o \in {[bridge |-> TRUE, err |-> NilError],
               [bridge |-> bridge, err |-> <<"create bridge">>],
               [bridge |-> TRUE, err |-> <<"set bridge up">>],
               [bridge |-> TRUE, err |-> <<"read bridge addresses">>],
               [bridge |-> TRUE, err |-> <<"assign gateway to bridge">>]} :
       /\ bridge' = o.bridge
       /\ add' = IF o.err # NilError
                 THEN Returning(Called(add, "EnsureBridge", <<parsed.cfg.Bridge>>),
                                NoAddResult, Wrap("ensure-bridge", o.err))
                 ELSE [Called(add, "EnsureBridge", <<parsed.cfg.Bridge>>) EXCEPT
                         !.pc = stepAfter("bridge"), !.stack = rollbackStack]
  /\ UNCHANGED <<stateFile, stdin, parsed, veth, restOfAdd>>

\* p.NetOps.CreateVethPair(hostVethName, peerTempName, cfg.MTU)
AddCreateVethPair ==
  /\ add.pc = "veth"
  /\ \E o \in CreateVethPairOutcomes(veth[add.containerID]) :
       /\ veth' = [veth EXCEPT ![add.containerID] = o.veth]
       /\ \E a \in {[Called(add, "CreateVethPair", HostVethName(add.containerID))
                       EXCEPT !.created = (veth[add.containerID] = "none" /\ o.veth # "none")]} :
            add' = IF o.err # NilError THEN Failing(a, "create-veth", o.err)
                   ELSE [a EXCEPT
                           !.pc = stepAfter("veth"),
                           !.stack = Append(@, <<CallOf("DeleteLink",
                                                        HostVethName(add.containerID))>>)]
  /\ UNCHANGED <<stateFile, stdin, parsed, bridge, restOfAdd>>

\* p.NetOps.AttachHostVethToBridge(hostVethName, cfg.Bridge)
AddAttachHostVeth ==
  /\ add.pc = "attach"
  /\ LinkStep("AttachHostVethToBridge", HostVethName(add.containerID),
              AttachOutcomes(veth[add.containerID]), "attach-host-veth",
              stepAfter("attach"), <<>>)

\* p.NetOps.MoveToNamespace(peerTempName, targetNS)
AddMoveToNamespace ==
  /\ add.pc = "move"
  /\ LinkStep("MoveToNamespace", PeerVethTempName(add.containerID),
              MoveOutcomes(veth[add.containerID]), "move-peer-to-netns",
              stepAfter("move"),
              <<CallOf("DeleteLinkInNS", IfName),
                CallOf("DeleteLinkInNS", PeerVethTempName(add.containerID))>>)

\* p.NetOps.PrepareContainerLink(targetNS, peerTempName, args.IfName)
AddPrepareContainerLink ==
  /\ add.pc = "prepare"
  /\ LinkStep("PrepareContainerLink", PeerVethTempName(add.containerID),
              PrepareOutcomes(veth[add.containerID]), "prepare-container-link",
              stepAfter("prepare"),
              <<>>)

\* p.IPAM.Allocate(ctx, ipReq); the call may fail on its files before it
\* changes anything
AddAllocate ==
  /\ add.pc = "alloc"
  /\ \E io \in {NoError, ErrLock} :
     \E r \in {IF io = NoError
               THEN AllocateCall(stateFile, AddRequest(parsed.cfg, add.containerID))
               ELSE [stateFile |-> stateFile, ip |-> NilIP, err |-> io]} :
       /\ stateFile' = r.stateFile
       /\ add' =
            IF r.err # NoError
            THEN Failing(Called(add, "Allocate", add.containerID), "alloc-ip", <<r.err>>)
            ELSE [Called(add, "Allocate", add.containerID) EXCEPT
                    !.pc = stepAfter("alloc"),
                    !.ip = r.ip,
                    !.stack = Append(@, <<CallOf("Release", add.containerID)>>)]
  /\ UNCHANGED <<stdin, parsed, veth, bridge, restOfAdd>>

\* p.NetOps.AddAddressAndRoute(targetNS, args.IfName, podCIDR, cfg.GatewayIP)
AddAddressAndRoute ==
  /\ add.pc = "address"
  /\ LinkStep("AddAddressAndRoute", IfName,
              AddAddressOutcomes(veth[add.containerID]), "configure-container-ip",
              stepAfter("address"),
              <<>>)

\* p.NetOps.GetLinkMAC(hostVethName), then the result is built and returned
AddGetLinkMAC ==
  /\ add.pc = "mac"
  /\ \E o \in GetLinkMACOutcomes(veth[add.containerID]) :
       add' =
         IF o.err # NilError
         THEN Failing(Called(add, "GetLinkMAC", HostVethName(add.containerID)),
                      "read-host-mac", o.err)
         ELSE [Called(add, "GetLinkMAC", HostVethName(add.containerID)) EXCEPT
                 !.pc = stepAfter("mac"),
                 !.pending = AbandonedWhenSucceeded(add.stack)]
  /\ UNCHANGED <<stateFile, stdin, parsed, veth, bridge, restOfAdd>>

\* rollbackStack.Run: the next call of the closures; its error is dropped
AddRollbackCall ==
  /\ add.pc \in {"rollback", "finish"}
  /\ add.pending # <<>>
  /\ \E k \in {Head(add.pending)} :
       /\ \/ /\ k.op = "DeleteLink"
             /\ \E o \in DeleteLinkOutcomes(veth[add.containerID]) :
                  \* the link of that name: the bridge, or the container's veth
                  /\ IF k.arg = <<parsed.cfg.Bridge>>
                     THEN bridge' = (bridge /\ o.err # NilError) /\ UNCHANGED veth
                     ELSE veth' = [veth EXCEPT ![add.containerID] = o.veth]
                          /\ UNCHANGED bridge
                  /\ add' = [add EXCEPT !.pending = Tail(@), !.undone = Append(@, k),
                                        !.swallowed = @ + (IF o.err # NilError THEN 1 ELSE 0)]
             /\ UNCHANGED stateFile
          \/ /\ k.op = "DeleteLinkInNS"
             /\ \E o \in DeleteLinkInNSOutcomes(veth[add.containerID], k.arg,
                                                add.containerID) :
                  /\ veth' = [veth EXCEPT ![add.containerID] = o.veth]
                  /\ add' = [add EXCEPT !.pending = Tail(@), !.undone = Append(@, k),
                                        !.swallowed = @ + (IF o.err # NilError THEN 1 ELSE 0)]
             /\ UNCHANGED <<stateFile, bridge>>
          \/ /\ k.op = "Release"
             /\ \E io \in {NoError, ErrLock} :
                \E r \in {IF io = NoError
                          THEN ReleaseCall(stateFile, parsed.cfg.Name, k.arg)
                          ELSE [stateFile |-> stateFile, err |-> io]} :
                  /\ stateFile' = r.stateFile
                  /\ add' = [add EXCEPT !.pending = Tail(@), !.undone = Append(@, k),
                                        !.swallowed = @ + (IF r.err # NoError THEN 1 ELSE 0)]
             /\ UNCHANGED <<veth, bridge>>
  /\ UNCHANGED <<stdin, parsed, restOfAdd>>

\* Add returns: the fail closure's error, or the result
AddReturn ==
  /\ add.pc \in {"rollback", "finish"}
  /\ add.pending = <<>>
  /\ add' = IF add.pc = "rollback"
            THEN Returning(add, NoAddResult, fail(add.tag, add.cause))
            ELSE Returning(add, AddResult(parsed.cfg, add.ip), NilError)
  \* history: the address a successful ADD returned for the container
  /\ granted' = IF add.pc = "finish"
                THEN [granted EXCEPT ![add.containerID] = IPString(add.ip)]
                ELSE granted
  /\ UNCHANGED <<stateFile, stdin, parsed, veth, bridge>>
  /\ UNCHANGED <<tmpFile, conf, lastCall, freed, procVars, names, nets>>

\* the plugin process exits
AddExit ==
  /\ add.pc = "returned"
  /\ add' = NoAdd(add.n)
  /\ stdin' = NotJSON
  /\ parsed' = NotParsed
  /\ UNCHANGED <<stateFile, veth, bridge, restOfAdd>>

NextAdd ==
  \/ \E c \in ContainerIDs, input \in AddStdins : AddBegin(c, input)
  \/ AddParse
  \/ AddGetNS
  \/ AddEnsureBridge
  \/ AddCreateVethPair
  \/ AddAttachHostVeth
  \/ AddMoveToNamespace
  \/ AddPrepareContainerLink
  \/ AddAllocate
  \/ AddAddressAndRoute
  \/ AddGetLinkMAC
  \/ AddRollbackCall
  \/ AddReturn
  \/ AddExit

SpecAdd == InitAdd /\ [][NextAdd]_vars

\* ---------------------------------------------------------------------
\* HostVethName and PeerVethTempName, called for one container ID after
\* another

MaxNameCalls == 3

\* the container IDs the names are computed for: the empty one and the one
\* of the test included
NameInputs == ContainerIDs \cup {EmptyString, TestContainerID}

restOfNames ==
  <<stateFile, tmpFile, conf, lastCall, granted, freed, procVars,
    stdin, parsed, add, veth, bridge, nets>>

InitNames ==
  /\ stateFile = Absent
  /\ tmpFile = Absent
  /\ conf = ConfDefault
  /\ lastCall = NoCall
  /\ granted = [c \in ContainerIDs |-> EmptyString]
  /\ freed = {}
  /\ call = <<>> /\ pc = <<>> /\ locked = {} /\ mem = <<>> /\ ret = <<>>
  /\ serial = Absent /\ expect = <<>>
  /\ NoInput

\* hostVethName := HostVethName(args.ContainerID)
\* peerTempName := PeerVethTempName(args.ContainerID)
NameContainer(containerID) ==
  /\ Len(names) < MaxNameCalls
  /\ names' = Append(names, [containerID |-> containerID,
                             host |-> HostVethName(containerID),
                             peer |-> PeerVethTempName(containerID)])
  /\ UNCHANGED restOfNames

NextNames == \E containerID \in NameInputs : NameContainer(containerID)

SpecNames == InitNames /\ [][NextNames]_vars

\* ---------------------------------------------------------------------
\* Invocations on the networks of one data directory: each takes the lock
\* of its network, then loads, works and saves under it

restOfNets ==
  <<stateFile, tmpFile, conf, lastCall, granted, freed, procVars,
    stdin, parsed, add, veth, bridge, names>>

\* each invocation allocates for its own container, or releases or reads
\* container 1, on one of the networks
InitNets ==
  /\ stateFile = Absent
  /\ tmpFile = Absent
  /\ conf = ConfDefault
  /\ lastCall = NoCall
  /\ granted = [c \in ContainerIDs |-> EmptyString]
  /\ freed = {}
  /\ call = <<>> /\ pc = <<>> /\ locked = {} /\ mem = <<>> /\ ret = <<>>
  /\ serial = Absent /\ expect = <<>>
  /\ stdin = NotJSON
  /\ parsed = NotParsed
  /\ add = NoAdd(0)
  /\ veth = [c \in ContainerIDs |-> "none"]
  /\ bridge = FALSE
  /\ names = <<>>
  /\ \E inv \in [Procs -> [op : {"allocate", "release", "get"}, network : Networks,
                           containerID : ProcIDs, pc : {"start"}]] :
       /\ \A i \in Procs :
            inv[i].containerID = IF inv[i].op = "allocate" THEN <<"c", i>> ELSE <<"c", 1>>
       \* the first invocation allocates what the others release and look up
       /\ inv[1].op = "allocate"
       /\ nets = [NoNets EXCEPT !.inv = inv]

\* the lock of the invocation's network is free
CanLock(i) == lockPath(DataDir, nets.inv[i].network) \notin nets.held

\* lockNetwork: the lock file is created if need be, and flock returns once
\* no other open file holds the lock
NetLock(i) ==
  /\ nets.inv[i].pc = "start"
  /\ CanLock(i)
  /\ \E lock \in {lockPath(DataDir, nets.inv[i].network)} :
       nets' = [nets EXCEPT !.files[lock] = OpenCreate(@),
                            !.held = @ \cup {lock},
                            !.inv[i].pc = "locked",
                            !.last = nets.inv[i].network]
  /\ UNCHANGED restOfNets

\* the state file the call leaves
NetCall(file, cl) ==
  CASE cl.op = "allocate" ->
         AllocateCall(file, AllocationRequest(DataDir, cl.network, cl.containerID,
                                              ConfDefault)).stateFile
    [] cl.op = "release" -> ReleaseCall(file, cl.network, cl.containerID).stateFile
    [] cl.op = "get" -> file

\* loadState, the work on the state, saveState when the call changes it
\* (the temp file is written and renamed away), and the deferred unlock
NetRun(i) ==
  /\ nets.inv[i].pc = "locked"
  /\ \E n \in {nets.inv[i].network} :
     \E after \in {NetCall(nets.files[statePath(DataDir, n)], nets.inv[i])} :
       nets' = [nets EXCEPT
                  !.files[statePath(DataDir, n)] = after,
                  !.files[tmpPath(DataDir, n)] =
                     IF after # nets.files[statePath(DataDir, n)] THEN Absent ELSE @,
                  !.held = @ \ {lockPath(DataDir, n)},
                  !.inv[i].pc = "done",
                  !.last = n]
  /\ UNCHANGED restOfNets

NextNets ==
  \/ \E i \in Procs : NetLock(i)
  \/ \E i \in Procs : NetRun(i)

SpecNets == InitNets /\ [][NextNets]_vars

NewAllocationStep ==
  /\ lastCall'.op = "allocate"
  /\ ~lastCall'.hadEntry
  /\ lastCall'.err \in {NoError, ErrNoAvailable}

\* position of an address relative to rangeStart (ranges here span < 2^16)
Offset(cf, ip) == U32Sub(ipv4ToUint(ip), ipv4ToUint(cf.RangeStart))[2]

RangeSize(cf) == Offset(cf, cf.RangeEnd) + 1

\* the addresses of [rangeStart, rangeEnd]
RangeAddrs(cf) ==
  IF U32Lt(ipv4ToUint(cf.RangeEnd), ipv4ToUint(cf.RangeStart)) THEN {}
  ELSE {uintToIPv4(U32Add(ipv4ToUint(cf.RangeStart), U32(0, k))) : k \in 0..(RangeSize(cf) - 1)}

\* network address, broadcast address and gateway of a configuration
Reserved(cf) ==
  {networkAndBroadcast(cf.Subnet).network, networkAndBroadcast(cf.Subnet).broadcast, cf.Gateway}

\* the addresses of the range a new container may be given
Allocatable(st, cf) ==
  LET Free(reserved, used) ==
        {ip \in RangeAddrs(cf) : ip \notin reserved /\ IPString(ip) \notin used}
  IN  Free(Reserved(cf), DOMAIN st.IPToContainer)

\* where the cyclic search begins
SearchStart(st, cf) ==
  LET After(last) ==
        IF last \notin RangeAddrs(cf) \/ last = cf.RangeEnd
        THEN cf.RangeStart
        ELSE uintToIPv4(U32Add(ipv4ToUint(last), U32One))
  IN  IF st.LastReserved = EmptyString THEN cf.RangeStart
      ELSE After(ParseIPTo4(st.LastReserved))

\* ip is the first allocatable address in cyclic order from the search start
FirstInCyclicOrder(st, cf, ip) ==
  LET Distance(a, from, n) == (Offset(cf, a) + n - from) % n
      First(avail, from, n) ==
        /\ ip \in avail
        /\ \A other \in avail : Distance(ip, from, n) <= Distance(other, from, n)
  IN  First(Allocatable(st, cf), Offset(cf, SearchStart(st, cf)), RangeSize(cf))

\* ---------------------------------------------------------------------
\* C3: allocate for a container that already has an entry returns the stored
\* address, the one its first allocation returned, and leaves containerToIP
\* and lastReserved as they were, also when the pool is exhausted.
AllocateIdempotent ==
  [][(lastCall'.op = "allocate" /\ lastCall'.hadEntry)
     => /\ lastCall'.ok
        /\ IPString(lastCall'.ip) = Loaded.ContainerToIP[lastCall'.containerID]
        /\ IPString(lastCall'.ip) = granted[lastCall'.containerID]
        /\ Loaded'.ContainerToIP = Loaded.ContainerToIP
        /\ Loaded'.LastReserved = Loaded.LastReserved]_vars

AllocateIdempotentWitness ==
  /\ lastCall.op = "allocate" /\ lastCall.hadEntry /\ lastCall.ok
  /\ Allocatable(Loaded, conf) = {}
  /\ Loaded.LastReserved # Loaded.ContainerToIP[lastCall.containerID]

\* C4 (as claimed): a container without an entry is given the first
\* allocatable address in cyclic order over [rangeStart, rangeEnd], starting
\* after lastReserved.
AllocateNextFit ==
  [][(NewAllocationStep /\ lastCall'.ok)
     => FirstInCyclicOrder(Loaded, conf, lastCall'.ip)]_vars

\* C5 (as claimed): when release(c) has freed address A, an allocate that
\* follows it for another container without an entry does not return A.
ReleasedNotReassigned ==
  [][(/\ lastCall.op = "release" /\ lastCall.released # NilIP
      /\ NewAllocationStep /\ lastCall'.ok
      /\ lastCall'.containerID # lastCall.containerID)
     => lastCall'.ip # lastCall.released]_vars

\* C5 (amended): an address of the range released since the last new
\* allocation is returned by the next new allocation only when no other
\* allocatable address precedes it in cyclic order from lastReserved + 1.
ReleasedReassignedOnlyWhenFirst ==
  [][(/\ NewAllocationStep /\ lastCall'.ok
      /\ IPString(lastCall'.ip) \in freed
      /\ lastCall'.ip \in RangeAddrs(conf))
     => FirstInCyclicOrder(Loaded, conf, lastCall'.ip)]_vars

ReleasedReassignedWitness ==
  /\ lastCall.op = "allocate" /\ lastCall.reused
  /\ conf = ConfDefault
  /\ Loaded.LastReserved = IPString(<<10, 22, 0, 3>>)
  /\ Cardinality(DOMAIN Loaded.ContainerToIP) >= 3

\* C6: release(c) removes c's entry from containerToIP and its address from
\* ipToContainer and leaves lastReserved and the other containers' entries
\* alone; without an entry for c it succeeds and leaves the file as it is.
ReleaseRemovesOnlyEntry ==
  [][(lastCall'.op = "release" /\ lastCall'.containerID # EmptyString)
     => /\ lastCall'.ok
        /\ lastCall'.containerID \notin DOMAIN Loaded'.ContainerToIP
        /\ IF lastCall'.hadEntry
           THEN /\ DOMAIN Loaded'.ContainerToIP
                     = (DOMAIN Loaded.ContainerToIP) \ {lastCall'.containerID}
                /\ \A c \in DOMAIN Loaded'.ContainerToIP :
                     Loaded'.ContainerToIP[c] = Loaded.ContainerToIP[c]
                /\ DOMAIN Loaded'.IPToContainer
                     = (DOMAIN Loaded.IPToContainer)
                         \ {Loaded.ContainerToIP[lastCall'.containerID]}
                /\ \A a \in DOMAIN Loaded'.IPToContainer :
                     Loaded'.IPToContainer[a] = Loaded.IPToContainer[a]
                /\ Loaded'.LastReserved = Loaded.LastReserved
           ELSE stateFile' = stateFile]_vars

ReleaseRemovesOnlyEntryWitness ==
  /\ lastCall.op = "release" /\ lastCall.hadEntry /\ lastCall.ok
  /\ Cardinality(DOMAIN Loaded.ContainerToIP) >= 2
  /\ Loaded.LastReserved \notin DOMAIN Loaded.IPToContainer
  /\ IPString(lastCall.released) = Loaded.LastReserved

\* C7 (as claimed): allocate for a container without an entry fails with
\* "no available IP addresses" exactly when no address of the range is
\* allocatable, and then leaves the state file as it is.
ExhaustedExactlyWhenNoneAllocatable ==
  [][NewAllocationStep
     => /\ (lastCall'.err = ErrNoAvailable) <=> (Allocatable(Loaded, conf) = {})
        /\ (lastCall'.err = ErrNoAvailable) => (stateFile' = stateFile)]_vars

\* C8: no address newly selected by allocate is the network address, the
\* broadcast address or the gateway.
NeverReservedAddress ==
  [][(NewAllocationStep /\ lastCall'.ok) => lastCall'.ip \notin Reserved(conf)]_vars

NeverReservedAddressWitness ==
  /\ lastCall.op = "allocate" /\ ~lastCall.hadEntry /\ lastCall.ok
  /\ conf = ConfDefault
  /\ lastCall.ip = <<10, 22, 0, 2>>
  /\ \E c \in DOMAIN Loaded.ContainerToIP : Loaded.ContainerToIP[c] = IPString(conf.RangeEnd)

\* C9: getByContainer(c) returns the address allocate(c) returned, present,
\* from that allocation until release(c), and not present otherwise; it
\* leaves the state file as it is.
GetReturnsGranted ==
  [][(lastCall'.op = "get" /\ lastCall'.containerID # EmptyString)
     => /\ lastCall'.err = NoError
        /\ lastCall'.ok <=> (granted[lastCall'.containerID] # EmptyString)
        /\ lastCall'.ok => IPString(lastCall'.ip) = granted[lastCall'.containerID]
        /\ stateFile' = stateFile]_vars

GetReturnsGrantedWitness ==
  /\ lastCall.op = "get" /\ lastCall.ok
  /\ lastCall.ip = <<10, 22, 0, 3>>
  /\ \E c \in ContainerIDs \ {lastCall.containerID} :
       granted[c] = EmptyString /\ Loaded.LastReserved # granted[lastCall.containerID]

\* ---------------------------------------------------------------------
\* Concurrent invocations: vocabulary of the claims

Allocators == {p \in Procs : call[p].op = "allocate"}

AllDone == \A p \in Procs : pc[p] = "done"

\* the concurrent calls are allocate calls with pairwise distinct container
\* IDs (and getByContainer calls, which change nothing), on a network whose
\* range holds an allocatable address for each of them
DistinctAllocators ==
  /\ \A p \in Procs : call[p].op # "release"
  /\ \A p, q \in Allocators : p # q => call[p].containerID # call[q].containerID
  /\ Cardinality(Allocatable(newState, conf)) >= Cardinality(Allocators)

\* C2: N concurrent allocate calls with N pairwise distinct container IDs on
\* a network with no entries whose range holds at least N allocatable
\* addresses all succeed, and the N addresses they return are pairwise
\* distinct, whatever the interleaving of their steps.
ConcurrentAllocateUnique ==
  DistinctAllocators
    => /\ \A p \in Allocators : pc[p] = "done" => ret[p].ok /\ ret[p].err = NoError
       /\ \A p, q \in Allocators :
            (p # q /\ pc[p] = "done" /\ pc[q] = "done") => ret[p].ip # ret[q].ip

ConcurrentAllocateUniqueWitness ==
  /\ AllDone
  /\ Allocators = Procs
  /\ \A p \in Procs : call[p].containerID = <<"c", p>> /\ ret[p].ok
  /\ Cardinality({ret[p].ip : p \in Procs}) = NumProcs

\* C10: the calls of a concurrent execution return what they return when run
\* one after another in the order they took the network lock, and whenever no
\* call holds the lock the state file is the one that sequential execution
\* leaves; once all calls returned, every container whose allocation
\* succeeded and was not released afterwards (granted, kept in lock order)
\* has the address that allocation returned in the file, and no other
\* container has an entry.
NoLostUpdates ==
  /\ \A p \in Procs : pc[p] = "done" => ret[p] = expect[p]
  /\ locked = {} => stateFile = serial
  /\ AllDone =>
       \A c \in ProcIDs :
         IF granted[c] # EmptyString
         THEN /\ c \in DOMAIN Loaded.ContainerToIP
              /\ Loaded.ContainerToIP[c] = granted[c]
              /\ granted[c] \in DOMAIN Loaded.IPToContainer
              /\ Loaded.IPToContainer[granted[c]] = c
              /\ \E p \in Allocators :
                   call[p].containerID = c /\ ret[p].ok /\ IPString(ret[p].ip) = granted[c]
         ELSE c \notin DOMAIN Loaded.ContainerToIP

NoLostUpdatesWitness ==
  /\ AllDone
  /\ \E p, q, r \in Procs :
       /\ call[p] = [op |-> "allocate", containerID |-> <<"c", 1>>] /\ ret[p].ok
       /\ call[q] = [op |-> "release", containerID |-> <<"c", 1>>] /\ ret[q].ok
       /\ call[r].op = "allocate" /\ call[r].containerID # <<"c", 1>> /\ ret[r].ok
       /\ ret[r].ip # ret[p].ip
       /\ granted[<<"c", 1>>] = EmptyString
       /\ DOMAIN Loaded.ContainerToIP = {call[r].containerID}

\* ---------------------------------------------------------------------
\* C11: at every instant {network}.json is absent or holds a complete
\* document, and every step leaves it as it is or replaces it by the whole
\* state the call holding the lock computed (the newly committed state);
\* this holds when a process dies at any point, between the write of
\* {network}.json.tmp and the rename included, and when the write or the
\* rename fails.
StateFileNeverPartial ==
  /\ [](stateFile.exists => stateFile.content.kind = "json")
  /\ [][\/ stateFile' = stateFile
        \/ \E p \in locked :
             /\ pc[p] = "rename" /\ pc'[p] = "unlock"
             /\ mem[p].save
             /\ stateFile' = FileWith(MarshalState(mem[p].st))]_vars

\* a later call committed over the leftovers of a call that died between the
\* write and the rename and of a write that stopped early
StateFileNeverPartialWitness ==
  /\ \E p \in Procs : pc[p] = "crashed before rename"
  /\ \E p \in Procs : pc[p] = "done" /\ ret[p].err \in {ErrReplace, ErrWriteTemp}
  /\ \E p \in Procs : pc[p] = "done" /\ ret[p].ok /\ call[p].op = "allocate"
  /\ tmpFile.exists /\ tmpFile.content.kind = "partial"
  /\ stateFile.exists
  /\ DOMAIN Loaded.ContainerToIP # {}

\* ---------------------------------------------------------------------
\* config.Parse: vocabulary of the claims

Returned == parsed # NotParsed

Accepted == Returned /\ parsed.err = NilError

\* the value Parse sees for a key of the document on standard input
Text(key) == UnmarshalConfig(stdin.doc)[key]

Omits(keys) == stdin.kind = "json" /\ keys \cap DOMAIN stdin.doc = {}

\* bridge, name, subnet and gateway are given, the gateway is an IPv4
\* address and the subnet an IPv4 CIDR
WellFormed ==
  /\ stdin.kind = "json"
  /\ Text("bridge") # "" /\ Text("name") # ""
  /\ ParseIPTo4(Text("gateway")) # NilIP
  /\ ParseCIDR(Text("subnet")).v4

GivenSubnet == ParseCIDR(Text("subnet")).net

GivenGateway == ParseIPTo4(Text("gateway"))

\* the rules on the gateway hold
GatewayUsable ==
  /\ WellFormed
  /\ SubnetContains(GivenSubnet, GivenGateway)
  /\ GivenGateway \notin Reserved([Subnet |-> GivenSubnet, Gateway |-> GivenSubnet.IP])

\* each endpoint that is given is an IPv4 address
EndpointsParse ==
  \A key \in {"rangeStart", "rangeEnd"} :
    Text(key) # EmptyString => ParseIPTo4(Text(key)) # NilIP

\* C17: a config that Parse accepts and that omits mtu, ipam.dataDir and both
\* range endpoints comes back with MTU 1500, data directory
\* /var/lib/atomicni, rangeStart the network address plus one and rangeEnd
\* the broadcast address minus one.
ParseDefaults ==
  (Accepted /\ Omits({"mtu", "dataDir", "rangeStart", "rangeEnd"}))
    => /\ parsed.cfg.MTU = 1500
       /\ parsed.cfg.DataDir = "/var/lib/atomicni"
       /\ ipv4ToUint(parsed.cfg.RangeStartIP)
            = U32Add(ipv4ToUint(networkAndBroadcast(GivenSubnet).network), U32One)
       /\ U32Add(ipv4ToUint(parsed.cfg.RangeEndIP), U32One)
            = ipv4ToUint(networkAndBroadcast(GivenSubnet).broadcast)

ParseDefaultsWitness ==
  /\ Accepted
  /\ DOMAIN stdin.doc = {"bridge", "name", "subnet", "gateway"}
  /\ Text("subnet") = <<10, ".", 22, ".", 0, ".", 5, "/", 30>>
  /\ parsed.cfg.RangeStartIP = <<10, 22, 0, 5>>
  /\ parsed.cfg.RangeEndIP = <<10, 22, 0, 6>>

\* C18: a config whose gateway lies outside its subnet is rejected, and with
\* an error containing "gateway must be inside subnet" when no rule checked
\* before this one fails (a missing bridge or name is reported first); every
\* config Parse accepts has its gateway inside the subnet and different from
\* the subnet's network and broadcast addresses.
GatewayInsideSubnet ==
  Returned =>
    /\ (WellFormed /\ ~SubnetContains(GivenSubnet, GivenGateway))
         => ErrorContains(parsed.err, "gateway must be inside subnet")
    /\ (/\ stdin.kind = "json"
        /\ ParseIPTo4(Text("gateway")) # NilIP
        /\ ParseCIDR(Text("subnet")).v4
        /\ ~SubnetContains(GivenSubnet, GivenGateway))
         => ~Accepted
    /\ Accepted =>
         /\ parsed.cfg.GatewayIP = GivenGateway
         /\ \A i \in 1..4 :
              ByteAnd(parsed.cfg.GatewayIP[i], parsed.cfg.SubnetNet.Mask[i])
                = parsed.cfg.SubnetNet.IP[i]
         /\ parsed.cfg.GatewayIP # networkAndBroadcast(parsed.cfg.SubnetNet).network
         /\ parsed.cfg.GatewayIP # networkAndBroadcast(parsed.cfg.SubnetNet).broadcast

GatewayInsideSubnetWitness ==
  /\ Returned
  /\ WellFormed
  /\ Text("gateway") = <<10, ".", 23, ".", 0, ".", 1>>
  /\ Text("subnet") = <<10, ".", 22, ".", 0, ".", 0, "/", 29>>
  /\ parsed.err = <<"gateway must be inside subnet">>

\* C19: a config that gives one range endpoint without the other is
\* rejected, and with an error containing "must be set together" when no
\* rule checked before this one fails (required fields, the gateway rules,
\* the given endpoint being an IPv4 address).
PartialRangeRejected ==
  (Returned /\ stdin.kind = "json"
            /\ (Text("rangeStart") = EmptyString) # (Text("rangeEnd") = EmptyString))
    => /\ ~Accepted
       /\ (GatewayUsable /\ EndpointsParse)
            => ErrorContains(parsed.err, "must be set together")

PartialRangeRejectedWitness ==
  /\ Returned
  /\ GatewayUsable
  /\ Text("rangeStart") = EmptyString
  /\ Text("rangeEnd") = <<10, ".", 22, ".", 0, ".", 6>>
  /\ ErrorContains(parsed.err, "must be set together")

\* C20: a config whose rangeStart is above its rangeEnd is rejected, and with
\* an error containing "rangeStart must be <= rangeEnd" when no rule checked
\* before this one fails (required fields, the gateway rules, both endpoints
\* inside the subnet).
RangeOrderRejected ==
  (/\ Returned /\ stdin.kind = "json"
   /\ ParseIPTo4(Text("rangeStart")) # NilIP
   /\ ParseIPTo4(Text("rangeEnd")) # NilIP
   /\ \E i \in 1..4 :
        /\ ParseIPTo4(Text("rangeStart"))[i] > ParseIPTo4(Text("rangeEnd"))[i]
        /\ \A j \in 1..(i - 1) :
             ParseIPTo4(Text("rangeStart"))[j] = ParseIPTo4(Text("rangeEnd"))[j])
    => /\ ~Accepted
       /\ (/\ GatewayUsable
           /\ SubnetContains(GivenSubnet, ParseIPTo4(Text("rangeStart")))
           /\ SubnetContains(GivenSubnet, ParseIPTo4(Text("rangeEnd"))))
            => ErrorContains(parsed.err, "rangeStart must be <= rangeEnd")

RangeOrderRejectedWitness ==
  /\ Returned
  /\ GatewayUsable
  /\ Text("rangeStart") = <<10, ".", 22, ".", 0, ".", 6>>
  /\ Text("rangeEnd") = <<10, ".", 22, ".", 0, ".", 2>>
  /\ ErrorContains(parsed.err, "rangeStart must be <= rangeEnd")


\* ---------------------------------------------------------------------
\* vocabulary of the claims about ADD

\* Add has returned an error after one of the steps that can be rolled back
AddFailed == add.pc = "returned" /\ add.tag # ""

\* Add has returned a result
AddSucceeded == add.pc = "returned" /\ add.ret.err = NilError

\* the last call Add made before any rollback
LastCall == add.calls[Len(add.calls)]

\* the tag Add gives to a failure of the call
TagOf(op) ==
  CASE op = "EnsureBridge" -> "ensure-bridge"
    [] op = "CreateVethPair" -> "create-veth"
    [] op = "AttachHostVethToBridge" -> "attach-host-veth"
    [] op = "MoveToNamespace" -> "move-peer-to-netns"
    [] op = "PrepareContainerLink" -> "prepare-container-link"
    [] op = "Allocate" -> "alloc-ip"
    [] op = "AddAddressAndRoute" -> "configure-container-ip"
    [] op = "GetLinkMAC" -> "read-host-mac"

UndoVeth(c) == <<CallOf("DeleteLink", HostVethName(c))>>

UndoPeer(c) ==
  <<CallOf("DeleteLinkInNS", IfName), CallOf("DeleteLinkInNS", PeerVethTempName(c))>>

UndoIP(c) == <<CallOf("Release", c)>>

\* the rollback calls the failure of a step is to be followed by
ExpectedRollback(tag, c) ==
  CASE tag = "create-veth" -> <<>>
    [] tag \in {"attach-host-veth", "move-peer-to-netns"} -> UndoVeth(c)
    [] tag \in {"prepare-container-link", "alloc-ip"} -> UndoPeer(c) \o UndoVeth(c)
    [] tag \in {"configure-container-ip", "read-host-mac"} ->
         UndoIP(c) \o UndoPeer(c) \o UndoVeth(c)

\* C12: when a step of ADD fails, the rollback calls made before Add returns
\* are exactly those of the steps completed before it, last registered
\* first: Release, the two DeleteLinkInNS, DeleteLink after a failure of
\* AddAddressAndRoute or GetLinkMAC; the two DeleteLinkInNS then DeleteLink
\* after a failure of PrepareContainerLink or Allocate; DeleteLink alone
\* after a failure of AttachHostVethToBridge or MoveToNamespace; none after
\* a failure of CreateVethPair.
RollbackReverseOrder ==
  AddFailed =>
    /\ add.tag = TagOf(LastCall.op)
    /\ add.undone = ExpectedRollback(add.tag, add.containerID)

RollbackReverseOrderWitness ==
  /\ AddFailed
  /\ add.tag = "read-host-mac"
  /\ Len(add.undone) = 4
  /\ add.undone[1].op = "Release"
  /\ add.undone[4].op = "DeleteLink"

\* C13: once a failed ADD has returned, the IPAM state holds no address for
\* the container of that invocation, also when the Release of the rollback
\* failed.
NoAddressAfterFailedAdd ==
  AddFailed => add.containerID \notin DOMAIN Loaded.ContainerToIP

\* C14: once a failed ADD has returned, the veth pair this invocation
\* created is gone, also when CreateVethPair failed after creating it and
\* when the DeleteLink of the rollback failed.
NoVethAfterFailedAdd ==
  (AddFailed /\ add.created) => veth[add.containerID] = "none"

\* C15: when a step of ADD fails, Add returns no result and the error of
\* that step under the tag of that step; rollback calls that fail leave the
\* returned error as it is and the rest of the rollback still runs.
FailureTaggedAndKept ==
  (add.pc = "returned" /\ add.ret.err # NilError /\ add.calls # <<>>) =>
    /\ add.ret.res = NoAddResult
    /\ add.ret.err[1] = TagOf(LastCall.op)
    /\ Len(add.ret.err) > 1
    /\ LastCall.op # "EnsureBridge" =>
         /\ Tail(add.ret.err) = add.cause
         /\ Len(add.undone) = Len(CallsOf(add.stack))

FailureTaggedAndKeptWitness ==
  /\ AddFailed
  /\ add.tag = "configure-container-ip"
  /\ add.swallowed >= 2
  /\ add.undone[1].op = "Release"
  /\ add.ret.err = <<"configure-container-ip", "assign IP address">>

\* C16: a successful ADD makes no rollback call (no DeleteLink, no
\* DeleteLinkInNS, no Release), and the address of its result is the one the
\* IPAM state holds for the container when Add returns.
SuccessKeepsAllocation ==
  AddSucceeded =>
    /\ add.undone = <<>>
    /\ add.ret.res.present
    /\ add.containerID \in DOMAIN Loaded.ContainerToIP
    /\ Loaded.ContainerToIP[add.containerID] = IPString(add.ret.res.IP)
    /\ veth[add.containerID] = "renamed"

SuccessKeepsAllocationWitness ==
  /\ AddSucceeded
  /\ add.n = 2
  /\ Len(add.stack) = 3
  /\ Cardinality(DOMAIN Loaded.ContainerToIP) = 2

\* C21: every NetworkConfig that Parse returns has MTU > 0, whatever integer
\* the document gives for mtu.
ParsedMTUPositive == Accepted => parsed.cfg.MTU > 0

\* C22: HostVethName and PeerVethTempName give the same name every time they
\* are called for the same container ID, each name is at most 15 characters
\* long, and the two names of a container ID differ.
NamesDeterministicShortDistinct ==
  /\ \A i, j \in DOMAIN names :
       names[i].containerID = names[j].containerID =>
         names[i].host = names[j].host /\ names[i].peer = names[j].peer
  /\ \A i \in DOMAIN names :
       /\ Len(names[i].host) <= 15
       /\ Len(names[i].peer) <= 15
       /\ names[i].host # names[i].peer

NamesDeterministicShortDistinctWitness ==
  /\ Len(names) = 3
  /\ names[1].containerID = TestContainerID
  /\ names[3].containerID = TestContainerID
  /\ names[2].containerID = EmptyString
  /\ Len(names[1].host) = 15
  /\ names[1].host[3] = "1" /\ names[1].peer[1] = "c"

\* C23: in every state that allocate and release calls commit, starting from
\* the empty state, containerToIP and ipToContainer are inverses of each
\* other: containerToIP[c] = a exactly when ipToContainer[a] = c.
MapsMutualInverses ==
  /\ \A c \in DOMAIN Loaded.ContainerToIP :
       /\ Loaded.ContainerToIP[c] \in DOMAIN Loaded.IPToContainer
       /\ Loaded.IPToContainer[Loaded.ContainerToIP[c]] = c
  /\ \A a \in DOMAIN Loaded.IPToContainer :
       /\ Loaded.IPToContainer[a] \in DOMAIN Loaded.ContainerToIP
       /\ Loaded.ContainerToIP[Loaded.IPToContainer[a]] = a

MapsMutualInversesWitness ==
  /\ lastCall.op = "release" /\ lastCall.ok /\ lastCall.hadEntry
  /\ Cardinality(DOMAIN Loaded.ContainerToIP) = 2
  /\ Cardinality(DOMAIN Loaded.IPToContainer) = 2
  /\ Loaded.LastReserved \notin DOMAIN Loaded.IPToContainer

\* C24: at most one invocation at a time is between loading and saving the
\* state of the network, getByContainer included: whoever is there holds the
\* exclusive lock; and a call that has returned, with or without an error,
\* holds the lock no more.
LockAroundReadModifyWrite ==
  /\ Cardinality(locked) <= 1
  /\ Cardinality({p \in Procs : pc[p] \in {"load", "write", "rename"}}) <= 1
  /\ \A p \in Procs : pc[p] \in {"load", "write", "rename", "unlock"} => p \in locked
  /\ \A p \in Procs : pc[p] = "done" => p \notin locked

LockAroundReadModifyWriteWitness ==
  /\ \E p \in Procs : call[p].op = "get" /\ pc[p] = "load" /\ locked = {p}
  /\ \E p \in Procs : pc[p] = "done" /\ ret[p].err \in {ErrWriteTemp, ErrReplace}
  /\ \E p \in Procs : pc[p] = "start" /\ call[p].op = "release"

\* C25: every address newly selected by allocate lies in
\* [rangeStart, rangeEnd], also when rangeEnd is close to 2^32 - 1 and
\* cursor + i overflows.
SelectedInsideRange ==
  [][(NewAllocationStep /\ lastCall'.ok) => lastCall'.ip \in RangeAddrs(conf)]_vars

\* C26: a failed ADD undoes only what that invocation produced: the veth
\* pair, the interface in the namespace and the IPAM entry the container had
\* before the invocation are still there once Add has returned its error.
FailedAddKeepsEarlierEffects ==
  AddFailed =>
    /\ add.had => add.containerID \in DOMAIN Loaded.ContainerToIP
    /\ add.vethBefore # "none" => veth[add.containerID] = add.vethBefore

\* the operations of Add on netops and IPAM, in the order of the steps
StepOrder ==
  <<"EnsureBridge", "CreateVethPair", "AttachHostVethToBridge", "MoveToNamespace",
    "PrepareContainerLink", "Allocate", "AddAddressAndRoute", "GetLinkMAC">>

\* C27: Add calls EnsureBridge, CreateVethPair, AttachHostVethToBridge,
\* MoveToNamespace, PrepareContainerLink, Allocate, AddAddressAndRoute and
\* GetLinkMAC in this order, each after all the earlier ones succeeded (once
\* a step has failed no further step is called), and when config.Parse fails
\* it calls nothing on netops or IPAM.
StepsInOrder ==
  /\ [](/\ Len(add.calls) <= Len(StepOrder)
        /\ \A i \in DOMAIN add.calls : add.calls[i].op = StepOrder[i]
        /\ (add.pc = "returned" /\ parsed.err # NilError) =>
             (add.calls = <<>> /\ add.undone = <<>>))
  /\ [][(add.pc \in {"rollback", "returned"} /\ add'.pc # "idle")
          => add'.calls = add.calls]_vars
  /\ [][(add'.calls # add.calls /\ add'.pc # "idle")
          => /\ add.pc \notin {"rollback", "returned", "finish"}
             /\ add.tag = "" /\ add.ret = NoRet
             /\ add'.calls = Append(add.calls, add'.calls[Len(add'.calls)])]_vars

StepsInOrderWitness ==
  /\ AddSucceeded
  /\ Len(add.calls) = 8
  /\ add.calls[1].op = "EnsureBridge"
  /\ add.calls[6].op = "Allocate"
  /\ add.calls[8].op = "GetLinkMAC"

\* C28: lastReserved is absent before the first successful allocation of a
\* new container; such an allocation sets it to the address it chose; every
\* other call (release, getByContainer, allocate for a container that has an
\* entry, an allocate that fails) leaves it as it was.
LastReservedFollowsNewAllocations ==
  /\ Loaded.LastReserved = EmptyString
  /\ [][IF lastCall'.op = "allocate" /\ ~lastCall'.hadEntry /\ lastCall'.ok
        THEN Loaded'.LastReserved = IPString(lastCall'.ip)
        ELSE Loaded'.LastReserved = Loaded.LastReserved]_vars

LastReservedFollowsNewAllocationsWitness ==
  /\ lastCall.op = "allocate" /\ ~lastCall.hadEntry /\ lastCall.err = ErrNoAvailable
  /\ conf = ConfWhole
  /\ Loaded.LastReserved = IPString(<<10, 22, 0, 2>>)
  /\ Loaded.LastReserved \in DOMAIN Loaded.IPToContainer

CorruptedSurfacesAbsentIsEmpty ==
  /\ [][stateFile = CorruptedFile =>
          /\ stateFile' = stateFile /\ tmpFile' = tmpFile
          /\ \A p \in Procs :
               (pc[p] = "load" /\ pc'[p] # "load") =>
                 (pc'[p] = "unlock" /\ mem'[p].err = ErrCorrupted /\ ~mem'[p].ok)]_vars
  /\ [](stateFile = CorruptedFile =>
          \A p \in Procs :
            pc[p] = "done" =>
              (~ret[p].ok /\ ret[p].ip = NilIP /\ ret[p].err # NoError))
  /\ [][\A p \in Procs :
          (/\ pc[p] = "load" /\ pc'[p] # "load"
           /\ (~stateFile.exists \/ stateFile.content.kind = "empty")) =>
            (mem'[p] = CallBody(newState, call[p]) /\ mem'[p].err = NoError)]_vars

\* allocate, release and getByContainer have each returned the "corrupted"
\* error and the file is as it was
CorruptedSurfacesAbsentIsEmptyWitness ==
  /\ stateFile = CorruptedFile
  /\ tmpFile = Absent
  /\ \A op \in {"allocate", "release", "get"} :
       \E p \in Procs : call[p].op = op /\ pc[p] = "done" /\ ret[p].err = ErrCorrupted


\* C32: once an ADD has returned success with address A for container c, the
\* IPAM state holds containerToIP[c] = A from then on (nothing but ADD runs, so
\* no release is requested from outside ADD), whatever later ADD invocations
\* do, a later ADD for the same container ID that fails and rolls back
\* included.
SucceededAddKeepsEntry ==
  \A c \in ContainerIDs :
    granted[c] # EmptyString =>
      (c \in DOMAIN Loaded.ContainerToIP /\ Loaded.ContainerToIP[c] = granted[c])


\* the ADD in progress repeats a successful ADD for its container: the address
\* that ADD returned is the container's entry and its interface is in place
RepeatedAdd ==
  /\ add.pc # "idle"
  /\ add.hadIP # EmptyString
  /\ add.hadIP = granted[add.containerID]
  /\ add.vethBefore = "renamed"

AcceptedConfigValidates ==
  Accepted =>
    \A c \in ContainerIDs : validateRequest(AddRequest(parsed.cfg, c)) = NoError

\* an accepted document that leaves dataDir out and gives a range of one
\* address
AcceptedConfigValidatesWitness ==
  /\ Accepted
  /\ Omits({"dataDir"})
  /\ parsed.cfg.DataDir = DefaultDataDir
  /\ parsed.cfg.RangeStartIP = <<10, 22, 0, 2>>
  /\ parsed.cfg.RangeEndIP = <<10, 22, 0, 2>>


\* C35: with NumProcs concurrent invocations and a fair scheduler, every
\* allocate, release and getByContainer call returns, every call whose request
\* passes the checks made before lockNetwork holds the network lock at some
\* point before it returns, and no call that has returned holds the lock.
EveryCallLocksAndReturns ==
  /\ <>[](AllDone /\ locked = {})
  /\ [][\A p \in Procs :
          (pc[p] # "done" /\ pc'[p] = "done" /\ Precheck(call[p]) = NoError) =>
            (p \in locked /\ p \notin locked')]_vars
  /\ [](\A p \in Procs : pc[p] = "done" => p \notin locked)

\* all the invocations have returned, each after it held the lock, with an
\* allocate, a release and a getByContainer among them
EveryCallLocksAndReturnsWitness ==
  /\ \A p \in Procs : pc[p] = "done" /\ Precheck(call[p]) = NoError
  /\ locked = {}
  /\ \A op \in {"allocate", "release", "get"} : \E p \in Procs : call[p].op = op

====
